---- MODULE Spec2Model ----
(***************************************************************************)
(* Lightning Local Search: the incremental index maintenance pipeline      *)
(* (IncrementalSync + debounce), the index wrapper (OramaIndex), the index *)
(* lifecycle (CacheManager + IndexStore) and plugin shutdown.              *)
(*                                                                         *)
(* JavaScript runs one task at a time; an async function runs until its    *)
(* next `await` and resumes later.  Every action below is one such run:    *)
(* an event handler or timer callback from its start to its first await,   *)
(* or the continuation of a suspended function up to its next await.       *)
(* Calls into the index engine (insert/remove/load/save/count) take effect *)
(* at the call; the `await` that follows only suspends the caller.         *)
(***************************************************************************)
EXTENDS Integers, Sequences, FiniteSets, TLC

\* ------------------------------------------------------------------ bounds
MaxEvents == 3     \* vault events (create, modify, delete, rename) in one run
MaxSaves == 1      \* saveIndex writes in flight at the same time

\* --------------------------------------------------------------- constants
INDEX_SCHEMA_VERSION == 2

\* A path is the sequence of its segments: "w/a.md" is <<"w", "a.md">>.
PathA == <<"w", "a.md">>
PathB == <<"b.md">>
Paths == {PathA, PathB}

\* The path a note has after a rename that takes the .md extension away,
\* and the keys the path-to-id table can have.
PathTxt == <<"b.txt">>
Keys == Paths \cup {PathTxt}
NoPath == <<>>
FolderW == <<"w">>

\* TFile objects: two for the files of the initial vault, one per create event
FileIds == 1..(2 + MaxEvents)
NoId == 0

VARIABLES
    tfile,            \* TFile objects: tfile[f] is file.path, NoPath if f was never created
    vault,            \* the TFile objects that exist in the vault
    excludedFolders,  \* VaultIndexer.excludedFolders
    isMobile,         \* Platform.isMobile
    dbReady,          \* OramaIndex.db !== null
    engine,           \* live documents of the engine: records [id, path]
    nextId,           \* next id the engine hands out
    pathToId,         \* OramaIndex.pathToId, NoId where the map has no entry
    pendingUpdates,   \* IncrementalSync.pendingUpdates, in insertion order
    timeoutId,        \* timeoutId !== null of the processPending debounce
    persistTimeoutId, \* timeoutId !== null of the debouncedPersist debounce
    flushes,          \* suspended flushPendingUpdates runs
    removals,         \* suspended removeDocument calls (paths), oldest first
    saves,            \* snapshots handed to saveIndex and not yet written
    stored,           \* the StoredIndex row of this vault in IndexedDB
    unloaded,         \* onunload has run
    boot,             \* the CacheManager.initialize() call of initializeServices
    api,              \* direct calls of the OramaIndex methods and what search returned
    persistRejected,  \* history: a persistIndex() promise nobody awaits was rejected
    sv,               \* one query typed into the search modal, from the text to the results
    ask,              \* the search view's Ask AI button: handleAskAI, the consent dialog, the audit log
    deb,              \* the debounce of the persist in real time: the clock and the timers
    staleTest,        \* the staleness test of one initialize() call: the counts and the verdict
    view,             \* SearchViewRoot: state, searchTimeout and the searches in flight
    reindex,          \* the fullRebuild calls of the "Re-index vault" command
    nEvents,          \* vault events delivered so far
    dirty,            \* history: files with a create/modify/rename event and no indexFile call since
    aborted,          \* history: <<files left unextracted by the last flush that died>>, or <<>>
    mon               \* history: monitor of one burst of create/modify events

vars == <<tfile, vault, excludedFolders, isMobile, dbReady, engine, nextId,
          pathToId, pendingUpdates, timeoutId, persistTimeoutId, flushes,
          removals, saves, stored, unloaded, boot, api, persistRejected, sv,
          ask, deb, staleTest, view, reindex, nEvents, dirty, aborted, mon>>

envVars == <<excludedFolders, isMobile, boot, api, persistRejected, sv, ask,
             deb, staleTest, view, reindex>>
plugVars == <<excludedFolders, isMobile, boot, api, sv, ask, deb, staleTest, view, reindex>>
histVars == <<nEvents, dirty, aborted>>

\* ----------------------------------------------------------------- helpers
Min(a, b) == IF a < b THEN a ELSE b

\* Array.slice(0, limit), limit >= 0
Take(hits, limit) == SubSeq(hits, 1, Min(limit, Len(hits)))

RemoveAt(s, k) == [j \in 1..(Len(s) - 1) |-> IF j < k THEN s[j] ELSE s[j + 1]]

IsPrefix(s, t) == Len(s) <= Len(t) /\ \A j \in 1..Len(s) : s[j] = t[j]

\* The search view before Ask AI was ever clicked. requests[k] is the k-th
\* ClaudeRequest that buildPrompt made: whether the consent setting was on
\* when handleAskAI read it, what the user did with the dialog ("none" while
\* it is open or was never shown), and whether the request was sent.
\* entries is AuditLog.entries (request ids).
AskIdle ==
    [pc |-> "idle", isAskingAI |-> FALSE, results |-> 0,
     requireConsentPerRequest |-> TRUE, auditLog |-> TRUE, modal |-> FALSE,
     requests |-> <<>>, entries |-> <<>>, aiSummary |-> FALSE,
     error |-> FALSE]

\* The debounced persist before the first notification: the clock at 0, no
\* timer set (timers are records [id, due]; timeoutId 0 is null, next the
\* id setTimeout returns next).  History: last is the time of the latest
\* notification, bursts counts the notifications that found no timer set,
\* persists the persistIndex calls, and early tells whether one of them was
\* made less than the delay after a notification.
DebIdle ==
    [now |-> 0, timers |-> {}, timeoutId |-> 0, next |-> 1, last |-> -1,
     bursts |-> 0, persists |-> 0, early |-> FALSE]

\* The search view as it is mounted: no query yet.  query and results are
\* the numbers of the inputs whose text and whose results the view shows,
\* searchTimeout the input the pending timer belongs to, running the
\* inputs whose search is awaited, blank the inputs of white space only.
ViewIdle ==
    [query |-> 0, results |-> 0, isSearching |-> FALSE, error |-> FALSE,
     searchTimeout |-> 0, running |-> {}, blank |-> {}]

\* initialize() has not reached its staleness test.
NotChecked == [pc |-> "idle", documentCount |-> 0, vaultFileCount |-> 0,
               rebuild |-> FALSE]

NoSnapshot ==
    [schemaVersion |-> 0, data |-> "none", docs |-> {}, pathMap |-> {},
     documentCount |-> 0]

EmptyMap == [p \in Keys |-> NoId]

PathsOf(docs) == {d.path : d \in docs}

DocsAt(docs, p) == {d \in docs : d.path = p}

\* ------------------------------------------------------------ debounce.ts
\* debounced(): clear a running timer and start a new one; the result is
\* whether a timer is running afterwards.
debounced(running) == TRUE

\* debounced.cancel(): clear a running timer.
cancel(running) == FALSE

\* ------------------------------------------------------- the pending Map
HasKey(m, key) == \E j \in 1..Len(m) : m[j].key = key

\* A list in place of the Map: every set appends, whether or not the key is
\* there already.
MapSetAppend(m, key, file) == Append(m, [key |-> key, file |-> file])

\* Map.set: an existing key keeps its place and gets the new value, a new
\* key goes to the end.
MapSet(m, key, file) ==
    IF HasKey(m, key)
    THEN [j \in 1..Len(m) |->
            IF m[j].key = key THEN [key |-> key, file |-> file] ELSE m[j]]
    ELSE Append(m, [key |-> key, file |-> file])

MapDelete(m, key) == SelectSeq(m, LAMBDA e : e.key # key)

MapValues(m) == [j \in 1..Len(m) |-> m[j].file]

\* ------------------------------------------------------------ the engine
EngineRemove(docs, id) == {d \in docs : d.id # id}

EngineInsert(docs, id, path) == docs \cup {[id |-> id, path |-> path]}

\* upsertDocument without the removal of the document the table has for
\* the path.
upsertDocumentInsertOnly(ready, docs, map, nid, path) ==
    IF ~ready
    THEN [pc |-> "next", engine |-> docs, id |-> NoId, nextId |-> nid]
    ELSE [pc |-> "insert", engine |-> EngineInsert(docs, nid, path),
          id |-> nid, nextId |-> nid + 1]

\* ------------------------------------------------------------ OramaIndex
\* upsertDocument from its call to its first await: the position it is
\* suspended at and the engine after the call.
\*   "next"   : db is null, returned at once
\*   "remove" : suspended at `await remove(this.db, existingId)`
\*   "insert" : suspended at `await insert(this.db, oramaDoc)`
upsertDocument(ready, docs, map, nid, path) ==
    IF ~ready
    THEN [pc |-> "next", engine |-> docs, id |-> NoId, nextId |-> nid]
    ELSE IF map[path] # NoId
    THEN [pc |-> "remove", engine |-> EngineRemove(docs, map[path]),
          id |-> NoId, nextId |-> nid]
    ELSE [pc |-> "insert", engine |-> EngineInsert(docs, nid, path),
          id |-> nid, nextId |-> nid + 1]

\* removeDocument that only marks the path and leaves the engine's document
\* to a later sweep.
removeDocumentLazy(ready, docs, map, path) ==
    IF ready /\ map[path] # NoId
    THEN [suspended |-> TRUE, engine |-> docs]
    ELSE [suspended |-> FALSE, engine |-> docs]

\* removeDocument from its call to its await: whether it is suspended at
\* `await remove(this.db, id)` (pathToId.delete follows the await) and the
\* engine after the call.
removeDocument(ready, docs, map, path) ==
    IF ready /\ map[path] # NoId
    THEN [suspended |-> TRUE, engine |-> EngineRemove(docs, map[path])]
    ELSE [suspended |-> FALSE, engine |-> docs]

\* Object.fromEntries(this.pathToId): the object with one property per
\* entry of the Map, here the set of its <<path, id>> pairs.
fromEntries(map) == {<<p, map[p]>> : p \in {q \in Keys : map[q] # NoId}}

\* new Map(Object.entries(pathMap)): the Map with one entry per property.
MapOfEntries(pathMap) ==
    [p \in Keys |->
        IF \E e \in pathMap : e[1] = p
        THEN (CHOOSE e \in pathMap : e[1] = p)[2]
        ELSE NoId]

\* serialize() that saves the engine and leaves the path-to-id table out.
serializeRawOnly(docs, map) ==
    [schemaVersion |-> INDEX_SCHEMA_VERSION, data |-> "ok", docs |-> docs,
     pathMap |-> {}, documentCount |-> Cardinality(docs)]

\* serialize() together with documentCount, as persistIndex passes them to
\* saveIndex in one synchronous stretch.
serialize(docs, map) ==
    [schemaVersion |-> INDEX_SCHEMA_VERSION, data |-> "ok", docs |-> docs,
     pathMap |-> fromEntries(map), documentCount |-> Cardinality(docs)]

\* loadFromSnapshot(raw, pathMap) once db is there: load() puts the saved
\* documents in place of the engine's, and pathToId is built anew.
loadFromSnapshot(raw, pathMap) ==
    [engine |-> raw, pathToId |-> MapOfEntries(pathMap)]

\* ---------------------------------------------------------- VaultIndexer
isExcluded(folders, path) ==
    \E folder \in folders :
        \/ IsPrefix(folder, path) /\ Len(folder) < Len(path)
        \/ path = folder

\* What the awaited indexFile call can come back with.
Outcomes == {"doc", "null", "throw"}

\* ------------------------------------------------------ the burst monitor
Quiescent ==
    /\ ~timeoutId
    /\ flushes = <<>>
    /\ pendingUpdates = <<>>
    /\ removals = <<>>

\* The monitor follows the events that start in a quiescent state and all
\* concern one path: st is "on" while that holds, n counts the events (2
\* stands for two or more), ren tells whether the first of them was a
\* rename to the path ("no", or "indexed" / "unindexed" for what the old
\* path was), fires counts the timer firings, nx, nu and nn the indexFile
\* calls, upsertDocument calls and change notifications, and res is what
\* the last indexFile call came back with.  from is the old path of the
\* latest rename where the run follows renames (SpecRename), NoPath once
\* an event that is not an edit of the renamed file has followed it.
MonZero(st) ==
    [st |-> st, path |-> NoPath, ren |-> "no", n |-> 0, fires |-> 0,
     nx |-> 0, nu |-> 0, nn |-> 0, res |-> "none", from |-> NoPath]

\* a create/modify event on path p
MonEvent(p) ==
    IF Quiescent THEN [MonZero("on") EXCEPT !.path = p, !.n = 1]
    ELSE IF mon.st = "on" /\ mon.path = p /\ mon.fires = 0
    THEN [mon EXCEPT !.n = Min(2, @ + 1)]
    ELSE MonZero("off")

\* a rename event to path p
MonRename(p, wasIndexed) ==
    IF Quiescent
    THEN [MonZero("on") EXCEPT !.path = p, !.n = 1,
             !.ren = IF wasIndexed THEN "indexed" ELSE "unindexed"]
    ELSE MonZero("off")

\* any other event
MonOther == MonZero("off")

MonFire(m) == IF m.st = "on" THEN [m EXCEPT !.fires = Min(2, @ + 1)] ELSE m
MonIndexFile(m) == IF m.st = "on" THEN [m EXCEPT !.nx = Min(2, @ + 1)] ELSE m
MonUpsert(m) == IF m.st = "on" THEN [m EXCEPT !.nu = Min(2, @ + 1)] ELSE m
MonNotify(m) == IF m.st = "on" THEN [m EXCEPT !.nn = Min(2, @ + 1)] ELSE m
MonResult(m, r) == IF m.st = "on" THEN [m EXCEPT !.res = r] ELSE m

\* ----------------------------------------------------------- CacheManager
\* persistIndex(): nothing on mobile or while db is null, else the snapshot
\* is serialized now and handed to saveIndex.
persistIndex(mobile, ready, docs, map, queue) ==
    IF mobile \/ ~ready THEN queue ELSE Append(queue, serialize(docs, map))

\* ------------------------------------------------------------ main.ts
\* onIndexChanged as the plugin passes it: debouncedPersist(), which is the
\* no-op placeholder on mobile.
\* The desktop callback installed on every platform.
onIndexChangedDesktop(mobile, running) == debounced(running)
onIndexChanged(mobile, running) == IF mobile THEN running ELSE debounced(running)

\* ------------------------------------------------- IncrementalSync: flush
\* The call indexFile(file) of the batch's n-th entry: isExcluded is
\* evaluated at the call, the read is awaited.
IndexFileCall(entries, n) ==
    [entries |-> entries, i |-> n, pc |-> "indexFile",
     excl |-> isExcluded(excludedFolders, tfile[entries[n]]),
     path |-> NoPath, id |-> NoId]

\* The debounce timer of processPending fires: flushPendingUpdates runs up
\* to its first await.
TimerFire ==
    /\ timeoutId
    /\ LET entries == MapValues(pendingUpdates)
       IN /\ timeoutId' = FALSE
          /\ pendingUpdates' = <<>>
          /\ IF entries = <<>>
             THEN /\ flushes' = flushes
                  /\ dirty' = dirty
                  /\ mon' = MonFire(mon)
             ELSE /\ flushes' = Append(flushes, IndexFileCall(entries, 1))
                  /\ dirty' = dirty \ {entries[1]}
                  /\ mon' = MonIndexFile(MonFire(mon))
    /\ UNCHANGED <<tfile, vault, envVars, dbReady, engine, nextId, pathToId,
                   persistTimeoutId, removals, saves, stored, unloaded,
                   nEvents, aborted>>

\* The loop of flushPendingUpdates after entry i of flush k is done: the
\* next indexFile call, or the change notification and the end of the run.
Advance(k, m) ==
    LET fl == flushes[k]
    IN IF fl.i < Len(fl.entries)
       THEN /\ flushes' = [flushes EXCEPT ![k] = IndexFileCall(fl.entries, fl.i + 1)]
            /\ persistTimeoutId' = persistTimeoutId
            /\ dirty' = dirty \ {fl.entries[fl.i + 1]}
            /\ mon' = MonIndexFile(m)
       ELSE /\ flushes' = RemoveAt(flushes, k)
            /\ persistTimeoutId' = onIndexChanged(isMobile, persistTimeoutId)
            /\ dirty' = dirty
            /\ mon' = MonNotify(m)

\* The files of flush fl that are never extracted when the run dies at its
\* current entry.
Skipped(fl) == {fl.entries[j] : j \in (fl.i + 1)..Len(fl.entries)}

\* `await this.indexer.indexFile(file)` comes back in flush k.
ExtractDone(k, o) ==
    /\ k \in 1..Len(flushes)
    /\ flushes[k].pc = "indexFile"
    /\ flushes[k].excl => o = "null"
    /\ LET fl == flushes[k]
           path == tfile[fl.entries[fl.i]]
           u == upsertDocument(dbReady, engine, pathToId, nextId, path)
       IN CASE o = "throw" ->
                 /\ flushes' = RemoveAt(flushes, k)
                 /\ aborted' = <<Skipped(fl)>>
                 /\ mon' = MonResult(mon, "throw")
                 /\ UNCHANGED <<engine, nextId, persistTimeoutId, dirty>>
            [] o = "null" ->
                 /\ Advance(k, MonResult(mon, "null"))
                 /\ UNCHANGED <<engine, nextId, aborted>>
            [] o = "doc" ->
                 /\ flushes' = [flushes EXCEPT ![k] =
                        [fl EXCEPT !.pc = u.pc, !.id = u.id, !.path = path]]
                 /\ engine' = u.engine
                 /\ nextId' = u.nextId
                 /\ mon' = MonUpsert(MonResult(mon, "doc"))
                 /\ UNCHANGED <<persistTimeoutId, dirty, aborted>>
    /\ UNCHANGED <<tfile, vault, envVars, dbReady, pathToId, pendingUpdates,
                   timeoutId, removals, saves, stored, unloaded, nEvents>>

\* upsertDocument of flush k resumes after `await remove(...)`: insert.
AfterRemove(k) ==
    /\ k \in 1..Len(flushes)
    /\ flushes[k].pc = "remove"
    /\ engine' = EngineInsert(engine, nextId, flushes[k].path)
    /\ nextId' = nextId + 1
    /\ flushes' = [flushes EXCEPT ![k].pc = "insert", ![k].id = nextId]
    /\ UNCHANGED <<tfile, vault, envVars, dbReady, pathToId, pendingUpdates,
                   timeoutId, persistTimeoutId, removals, saves, stored,
                   unloaded, histVars, mon>>

\* upsertDocument of flush k resumes after `await insert(...)`:
\* pathToId.set, and upsertDocument returns.
AfterInsert(k) ==
    /\ k \in 1..Len(flushes)
    /\ flushes[k].pc = "insert"
    /\ pathToId' = [pathToId EXCEPT ![flushes[k].path] = flushes[k].id]
    /\ flushes' = [flushes EXCEPT ![k].pc = "next"]
    /\ UNCHANGED <<tfile, vault, envVars, dbReady, engine, nextId,
                   pendingUpdates, timeoutId, persistTimeoutId, removals,
                   saves, stored, unloaded, histVars, mon>>

\* flush k resumes after `await this.index.upsertDocument(doc)`.
FlushNext(k) ==
    /\ k \in 1..Len(flushes)
    /\ flushes[k].pc = "next"
    /\ Advance(k, mon)
    /\ UNCHANGED <<tfile, vault, envVars, dbReady, engine, nextId, pathToId,
                   pendingUpdates, timeoutId, removals, saves, stored,
                   unloaded, nEvents, aborted>>

\* ------------------------------------------- IncrementalSync: the handlers
PathInUse(p) == \E f \in vault : tfile[f] = p

Unused == {f \in FileIds : tfile[f] = NoPath}

\* vault.on("create"): a new TFile at path p.
Create(p) ==
    /\ ~unloaded
    /\ nEvents < MaxEvents
    /\ nEvents' = nEvents + 1
    /\ ~PathInUse(p)
    /\ Unused # {}
    /\ LET f == CHOOSE g \in Unused : \A h \in Unused : g <= h
       IN /\ tfile' = [tfile EXCEPT ![f] = p]
          /\ vault' = vault \cup {f}
          /\ pendingUpdates' = MapSet(pendingUpdates, p, f)
          /\ dirty' = dirty \cup {f}
    /\ timeoutId' = debounced(timeoutId)
    /\ mon' = MonEvent(p)
    /\ UNCHANGED <<envVars, dbReady, engine, nextId, pathToId,
                   persistTimeoutId, flushes, removals, saves, stored,
                   unloaded, aborted>>

\* vault.on("modify"), of a file with the extension md
\* A modify handler that upserts on the spot instead of waiting for the
\* timer.
ModifyUpserts(f) ==
    /\ ~unloaded
    /\ nEvents < MaxEvents
    /\ nEvents' = nEvents + 1
    /\ f \in vault
    /\ tfile[f] \in Paths
    /\ engine' = EngineInsert(EngineRemove(engine, pathToId[tfile[f]]),
                              nextId, tfile[f])
    /\ pathToId' = [pathToId EXCEPT ![tfile[f]] = nextId]
    /\ nextId' = nextId + 1
    /\ dirty' = dirty \cup {f}
    /\ mon' = MonEvent(tfile[f])
    /\ UNCHANGED <<tfile, vault, envVars, dbReady, pendingUpdates, timeoutId,
                   persistTimeoutId, flushes, removals, saves, stored,
                   unloaded, aborted>>

Modify(f) ==
    /\ ~unloaded
    /\ nEvents < MaxEvents
    /\ nEvents' = nEvents + 1
    /\ f \in vault
    /\ tfile[f] \in Paths
    /\ pendingUpdates' = MapSet(pendingUpdates, tfile[f], f)
    /\ dirty' = dirty \cup {f}
    /\ timeoutId' = debounced(timeoutId)
    /\ mon' = MonEvent(tfile[f])
    /\ UNCHANGED <<tfile, vault, envVars, dbReady, engine, nextId, pathToId,
                   persistTimeoutId, flushes, removals, saves, stored,
                   unloaded, aborted>>

\* vault.on("delete"): the handler runs removeDocument up to its await and
\* then calls onIndexChanged.
Delete(f) ==
    /\ ~unloaded
    /\ nEvents < MaxEvents
    /\ nEvents' = nEvents + 1
    /\ f \in vault
    /\ LET path == tfile[f]
           r == removeDocument(dbReady, engine, pathToId, path)
       IN /\ vault' = vault \ {f}
          /\ pendingUpdates' = MapDelete(pendingUpdates, path)
          /\ engine' = r.engine
          /\ removals' = IF r.suspended THEN Append(removals, path) ELSE removals
    /\ persistTimeoutId' = onIndexChanged(isMobile, persistTimeoutId)
    /\ dirty' = dirty \ {f}
    /\ mon' = MonOther
    /\ UNCHANGED <<tfile, envVars, dbReady, nextId, pathToId, timeoutId,
                   flushes, saves, stored, unloaded, aborted>>

\* vault.on("rename"): the TFile object keeps its identity, its path is new.
\* The monitor apart.
onRename(f, new) ==
    /\ ~unloaded
    /\ nEvents < MaxEvents
    /\ nEvents' = nEvents + 1
    /\ f \in vault
    /\ ~PathInUse(new)
    /\ LET oldPath == tfile[f]
           r == removeDocument(dbReady, engine, pathToId, oldPath)
       IN /\ engine' = r.engine
          /\ removals' = IF r.suspended THEN Append(removals, oldPath) ELSE removals
    /\ tfile' = [tfile EXCEPT ![f] = new]
    /\ pendingUpdates' = MapSet(pendingUpdates, new, f)
    /\ dirty' = dirty \cup {f}
    /\ timeoutId' = debounced(timeoutId)
    /\ UNCHANGED <<vault, envVars, dbReady, nextId, pathToId,
                   persistTimeoutId, flushes, saves, stored, unloaded,
                   aborted>>

Rename(f, new) ==
    /\ onRename(f, new)
    /\ mon' = MonRename(new, dbReady /\ pathToId[tfile[f]] # NoId)

\* the same, the monitor keeping the old path
RenameFrom(f, new) ==
    /\ onRename(f, new)
    /\ mon' = [MonRename(new, dbReady /\ pathToId[tfile[f]] # NoId)
                 EXCEPT !.from = tfile[f]]

\* vault.on("rename") when the new name has not the extension md: the
\* handler does nothing; the TFile object has the new path.
RenameAway(f) ==
    /\ ~unloaded
    /\ nEvents < MaxEvents
    /\ nEvents' = nEvents + 1
    /\ f \in vault
    /\ tfile[f] \in Paths
    /\ ~PathInUse(PathTxt)
    /\ tfile' = [tfile EXCEPT ![f] = PathTxt]
    /\ mon' = [MonZero("off") EXCEPT !.from = tfile[f]]
    /\ UNCHANGED <<vault, envVars, dbReady, engine, nextId, pathToId,
                   pendingUpdates, timeoutId, persistTimeoutId, flushes,
                   removals, saves, stored, unloaded, dirty, aborted>>

\* The oldest suspended removeDocument resumes after `await remove(...)`:
\* pathToId.delete(path).
RemoveCont ==
    /\ removals # <<>>
    /\ pathToId' = [pathToId EXCEPT ![Head(removals)] = NoId]
    /\ removals' = Tail(removals)
    /\ UNCHANGED <<tfile, vault, envVars, dbReady, engine, nextId,
                   pendingUpdates, timeoutId, persistTimeoutId, flushes,
                   saves, stored, unloaded, histVars, mon>>

\* ------------------------------------------------------- persist, unload
\* The promise of a persistIndex() call made with `void`: serialize() and
\* JSON.stringify run in the call and a throw of theirs (~serialized)
\* rejects the promise, which nobody awaits; on mobile and while db is null
\* the call returns before them.
VoidPersist(mobile, ready, serialized, rejected) ==
    IF mobile \/ ~ready THEN rejected ELSE rejected \/ ~serialized

\* The debouncedPersist timer fires: persistIndex up to `await saveIndex`.
PersistFire(serialized) ==
    /\ persistTimeoutId
    /\ persistTimeoutId' = FALSE
    /\ saves' = IF serialized
                THEN persistIndex(isMobile, dbReady, engine, pathToId, saves)
                ELSE saves
    /\ Len(saves') <= MaxSaves
    /\ persistRejected' = VoidPersist(isMobile, dbReady, serialized, persistRejected)
    /\ UNCHANGED <<tfile, vault, plugVars, dbReady, engine, nextId, pathToId,
                   pendingUpdates, timeoutId, flushes, removals, stored,
                   unloaded, histVars, mon>>

\* The oldest saveIndex write reaches IndexedDB (ok) or fails, which
\* rejects the persistIndex() promise that awaited it.
SaveDone(ok) ==
    /\ saves # <<>>
    /\ stored' = IF ok THEN Head(saves) ELSE stored
    /\ saves' = Tail(saves)
    /\ persistRejected' = (persistRejected \/ ~ok)
    /\ UNCHANGED <<tfile, vault, plugVars, dbReady, engine, nextId, pathToId,
                   pendingUpdates, timeoutId, persistTimeoutId, flushes,
                   removals, unloaded, histVars, mon>>

\* AISearchPlugin.onunload; the host then stops delivering vault events.
onunload(serialized) ==
    /\ ~unloaded
    /\ unloaded' = TRUE
    /\ persistTimeoutId' = cancel(persistTimeoutId)
    /\ saves' = IF serialized
                THEN persistIndex(isMobile, dbReady, engine, pathToId, saves)
                ELSE saves
    /\ Len(saves') <= MaxSaves
    /\ persistRejected' = VoidPersist(isMobile, dbReady, serialized, persistRejected)
    /\ mon' = MonOther
    /\ UNCHANGED <<tfile, vault, plugVars, dbReady, engine, nextId, pathToId,
                   pendingUpdates, timeoutId, flushes, removals, stored,
                   histVars>>

\* ----------------------------------------- CacheManager and IndexStore
\* loadIndex without the schema version test: the stored row as it is.
loadIndexAnyVersion(row) == row

\* IndexStore.loadIndex: the stored row, if there is one of the running
\* schema version.
loadIndex(row) ==
    IF row # NoSnapshot /\ row.schemaVersion = INDEX_SCHEMA_VERSION
    THEN row
    ELSE NoSnapshot

\* The stale-cache test with <= in the place of <.
isStaleInclusive(documentCount, vaultFileCount) ==
    vaultFileCount > 0 /\ 10 * documentCount <= 8 * vaultFileCount

\* The stale-cache test of initialize(): cached.documentCount <
\* vaultFileCount * STALE_CACHE_THRESHOLD, with the threshold 0.8 = 8/10.
\* The code multiplies in double precision: the double next to 0.8 is
\* 0.8 * (1 + 2^-54), so the product, rounded to the nearest double, is
\* the integer 0.8 * F when that is one (the error is below half the
\* distance between doubles) and is otherwise at least 0.2 - 2^-50 * F
\* away from every integer; against the integer documentCount the test
\* gives what the exact comparison gives, for every F below 2^47.
isStale(documentCount, vaultFileCount) ==
    vaultFileCount > 0 /\ 10 * documentCount < 8 * vaultFileCount

\* getIndexableFiles(): the markdown files that are not in an excluded
\* folder, in vault order.
RECURSIVE FilesFrom(_)
FilesFrom(f) ==
    IF f \notin FileIds THEN <<>>
    ELSE IF f \in vault /\ ~isExcluded(excludedFolders, tfile[f])
    THEN <<f>> \o FilesFrom(f + 1)
    ELSE FilesFrom(f + 1)

getIndexableFiles == FilesFrom(1)

getFileCount == Len(getIndexableFiles)

\* ------------------------------------------------------------------ Spec
FileLayouts ==
    {[f \in FileIds |-> NoPath],
     [f \in FileIds |-> IF f = 1 THEN PathA ELSE NoPath],
     [f \in FileIds |-> IF f = 1 THEN PathB ELSE NoPath],
     [f \in FileIds |-> IF f = 1 THEN PathA ELSE IF f = 2 THEN PathB ELSE NoPath]}

\* initialize() has not been called / is over.  saved tells whether this
\* run of the plugin wrote the snapshot of its full rebuild to the store,
\* fresh whether the run before did ("first" in the first run).
BootIdle ==
    [pc |-> "idle", read |-> FALSE, snap |-> NoSnapshot, files |-> <<>>,
     i |-> 0, excl |-> FALSE, path |-> NoPath, id |-> NoId, docCount |-> 0,
     documentCount |-> 0, saved |-> FALSE, fresh |-> "first"]

BootDone == [BootIdle EXCEPT !.pc = "over"]

\* ------------------------------------------------------------- strings
\* A string is the sequence of its characters; a key word of the query
\* syntax ("path", "created", ...) counts as one character.
Lower(c) ==
    CASE c = "W" -> "w" [] c = "A" -> "a" [] c = "B" -> "b"
      [] c = "Created" -> "created" [] OTHER -> c

toLowerCase(str) == [j \in 1..Len(str) |-> Lower(str[j])]

startsWith(str, prefix) == IsPrefix(prefix, str)

includes(str, sub) ==
    \E j \in 0..(Len(str) - Len(sub)) : SubSeq(str, j + 1, j + Len(sub)) = sub

\* --------------------------------------------------------- query-parser
RESERVED_PREFIXES ==
    {"path", "folder", "created", "modified", "title", "heading", "file",
     "tag", "line", "section"}

\* A raw query is a sequence of whitespace-separated tokens without quotes,
\* parentheses and square brackets.  A token reads  pre:-#val  where every
\* part is optional: pre is the word before a colon ("" if there is no
\* colon), neg a leading "-", hash a leading "#", val the rest, made of
\* letters; in a date token val is empty and op and day are the optional
\* "<" or ">" and the YYYY-MM-DD date (its day number, 0 if there is none).
Token(pre, neg, hash, val, op, day) ==
    [pre |-> pre, neg |-> neg, hash |-> hash, val |-> val, op |-> op, day |-> day]

\* the characters after the colon, a date counting as one
Value(t) ==
    (IF t.neg THEN <<"-">> ELSE <<>>) \o (IF t.hash THEN <<"#">> ELSE <<>>)
        \o t.val
        \o (IF t.day # 0 THEN (IF t.op # "" THEN <<t.op>> ELSE <<>>) \o <<t.day>>
            ELSE <<>>)

\* the characters of the whole token
TokenText(t) == (IF t.pre # "" THEN <<t.pre, ":">> ELSE <<>>) \o Value(t)

\* The rules for line:, section:, path:, folder:, file:, title:, tag: and
\* heading: are regular expressions without an anchor in front of the key
\* word: they match at the end of a longer word.  KeyWord is the key word
\* the word before the colon ends in, KeyHead what precedes it there.
KeyWord(pre) == IF pre = "profile" THEN "file" ELSE pre

KeyHead(pre) == IF pre = "profile" THEN "pro" ELSE ""

\* The extraction rule of parseQuery that consumes the token, the rules
\* being tried in the order of the code: -#tag, #tag, line:, section:,
\* path:, folder:, file:, title:, tag:, heading:, created:, modified:,
\* key:value, -word; "text" if none does and the token stays in the text.
Rule(t) ==
    IF t.hash /\ t.val # <<>> THEN (IF t.neg THEN "-#" ELSE "#")
    ELSE IF t.pre = ""
    THEN (IF t.neg /\ ~t.hash /\ t.val # <<>> /\ t.day = 0 THEN "-word" ELSE "text")
    ELSE IF Value(t) = <<>> THEN "text"
    ELSE IF Lower(KeyWord(t.pre)) \in {"line", "section", "path", "folder", "file",
                                       "title", "tag", "heading"}
    THEN Lower(KeyWord(t.pre))
    ELSE IF t.pre \in {"created", "modified"} /\ t.day # 0 /\ ~t.neg /\ ~t.hash
    THEN t.pre
    ELSE IF Lower(t.pre) \in RESERVED_PREFIXES THEN "text"
    ELSE "key:value"

\* What the #tag and -#tag rules leave of a token in the text: the word
\* before the colon with the colon.
Leftover(t) == Token(t.pre, FALSE, FALSE, <<>>, "", 0)

Extracted(raw, rules) == SelectSeq(raw, LAMBDA t : Rule(t) \in rules)

ValuesOf(tokens) == [j \in 1..Len(tokens) |-> Value(tokens[j])]

TagValuesOf(tokens) == [j \in 1..Len(tokens) |-> tokens[j].val]

opToOperator(op) == IF op = ">" THEN "after" ELSE IF op = "<" THEN "before" ELSE "on"

DateFiltersOf(tokens) ==
    [j \in 1..Len(tokens) |->
        [field |-> tokens[j].pre, operator |-> opToOperator(tokens[j].op),
         date |-> tokens[j].day]]

\* the text left at the end: the tokens no rule took, what the tag rules
\* left of theirs and what a key word rule left in front of its match, in
\* the order of the query
Residual(raw) ==
    LET left == SelectSeq(raw, LAMBDA t :
                    \/ Rule(t) = "text"
                    \/ Rule(t) \in {"#", "-#"} /\ t.pre # ""
                    \/ Rule(t) = KeyWord(t.pre) /\ KeyHead(t.pre) # "")
    IN [j \in 1..Len(left) |->
           IF Rule(left[j]) = "text" THEN TokenText(left[j])
           ELSE IF Rule(left[j]) \in {"#", "-#"} THEN TokenText(Leftover(left[j]))
           ELSE <<KeyHead(left[j].pre)>>]

\* frontmatter[key] = value, a later token of the same key replacing the
\* earlier one
FrontmatterOf(tokens) ==
    {<<tokens[j].pre, Value(tokens[j])>> :
        j \in {i \in 1..Len(tokens) :
                 \A l \in (i + 1)..Len(tokens) : tokens[l].pre # tokens[i].pre}}

parseQuery(raw) ==
    [text |-> Residual(raw),
     phrases |-> <<>>,
     tags |-> TagValuesOf(Extracted(raw, {"#"}))
                \o ValuesOf(SelectSeq(Extracted(raw, {"tag"}),
                                      LAMBDA t : ~(t.hash /\ ~t.neg))),
     excludedTags |-> TagValuesOf(Extracted(raw, {"-#"})),
     excludedTerms |-> TagValuesOf(Extracted(raw, {"-word"})),
     paths |-> ValuesOf(Extracted(raw, {"path"})) \o ValuesOf(Extracted(raw, {"folder"})),
     fileTerms |-> ValuesOf(Extracted(raw, {"file"})) \o ValuesOf(Extracted(raw, {"title"})),
     headingTerms |-> ValuesOf(Extracted(raw, {"heading"})),
     lineQueries |-> ValuesOf(Extracted(raw, {"line"})),
     sectionQueries |-> ValuesOf(Extracted(raw, {"section"})),
     frontmatter |-> FrontmatterOf(Extracted(raw, {"key:value"})),
     dateFilters |-> DateFiltersOf(Extracted(raw, {"created"}))
                       \o DateFiltersOf(Extracted(raw, {"modified"}))]

\* ------------------------------------------------- OramaIndex.search
\* The length of a day in the unit of the timestamps.
DayTicks == 4

\* new Date("YYYY-MM-DD").getTime(): midnight UTC of the day.
getTime(day) == day * DayTicks

\* new Date(t).setHours(h, m, s, ms) for the first (last = FALSE) or the
\* last (last = TRUE) instant of a day: that instant of the LOCAL day t
\* falls in, local time being UTC + tz.
setHours(t, last, tz) ==
    ((t + tz) \div DayTicks) * DayTicks - tz + (IF last THEN DayTicks - 1 ELSE 0)

NoRange == [op |-> "none", lo |-> 0, hi |-> 0]

\* the where entry of one date filter
DateRange(filter, tz) ==
    IF filter.operator = "after"
    THEN [op |-> "gt", lo |-> getTime(filter.date), hi |-> 0]
    ELSE IF filter.operator = "before"
    THEN [op |-> "lt", lo |-> 0, hi |-> getTime(filter.date)]
    ELSE [op |-> "between", lo |-> setHours(getTime(filter.date), FALSE, tz),
          hi |-> setHours(getTime(filter.date), TRUE, tz)]

\* where[field] after the loop over dateFilters: the last filter of the
\* field wins
FieldRange(filters, field, tz) ==
    LET mine == SelectSeq(filters, LAMBDA f : f.field = field)
    IN IF mine = <<>> THEN NoRange ELSE DateRange(mine[Len(mine)], tz)

buildWhereClause(query, tz) ==
    [tags |-> query.tags,
     createdAt |-> FieldRange(query.dateFilters, "created", tz),
     modifiedAt |-> FieldRange(query.dateFilters, "modified", tz)]

EmptyWhere == [tags |-> <<>>, createdAt |-> NoRange, modifiedAt |-> NoRange]

InRange(t, range) ==
    CASE range.op = "none" -> TRUE
      [] range.op = "gt" -> t > range.lo
      [] range.op = "lt" -> t < range.hi
      [] range.op = "between" -> range.lo <= t /\ t <= range.hi

\* title, content and headings as the post-filters join them
SearchableText(doc) == doc.title \o <<" ">> \o doc.content \o <<" ">>

\* The engine's search, as far as the plugin relies on it: the documents
\* that satisfy the where clause and, unless the term is empty, hold a word
\* of the term, best score first, cut to limit.
EngineMatch(doc, term, where) ==
    /\ \A j \in 1..Len(where.tags) : where.tags[j] \in doc.tags
    /\ InRange(doc.createdAt, where.createdAt)
    /\ InRange(doc.modifiedAt, where.modifiedAt)
    /\ term # <<>> =>
          \E j \in 1..Len(term) :
              includes(toLowerCase(SearchableText(doc)), toLowerCase(term[j]))

RECURSIVE Ranked(_)
Ranked(docs) ==
    IF docs = {} THEN <<>>
    ELSE LET best == CHOOSE d \in docs : \A e \in docs : e.score <= d.score
         IN <<best>> \o Ranked(docs \ {best})

EngineSearch(docs, term, where, limit) ==
    Take(Ranked({d \in docs : EngineMatch(d, term, where)}), limit)

\* the post-filters of search(), one by one
PathFilter(doc, paths) ==
    \E j \in 1..Len(paths) :
        LET fp == toLowerCase(paths[j])
            docPath == toLowerCase(doc.path)
            docFolder == toLowerCase(doc.folder)
        IN \/ docFolder = fp
           \/ startsWith(docFolder, fp \o <<"/">>)
           \/ startsWith(docPath, fp \o <<"/">>)
           \/ startsWith(docPath, toLowerCase(fp))

PhraseFilter(doc, phrases) ==
    \A j \in 1..Len(phrases) :
        includes(toLowerCase(SearchableText(doc)), toLowerCase(phrases[j]))

ExcludedTermFilter(doc, terms) ==
    \A j \in 1..Len(terms) :
        ~includes(toLowerCase(SearchableText(doc)), toLowerCase(terms[j]))

\* no test of the excluded tags
ExcludedTagFilterOff(doc, tags) == TRUE

ExcludedTagFilter(doc, tags) ==
    \A j \in 1..Len(tags) :
        ~\E t \in doc.tags : toLowerCase(t) = toLowerCase(tags[j])

HeadingFilter(doc, terms) ==
    \A j \in 1..Len(terms) :
        \E k \in 1..Len(doc.headings) :
            includes(toLowerCase(doc.headings[k]), toLowerCase(terms[j]))

FrontmatterFilter(doc, frontmatter) ==
    \A e \in frontmatter :
        includes(toLowerCase(doc.frontmatter),
                 toLowerCase(<<e[1], ":">> \o e[2]))

needsPostFilter(query) ==
    \/ query.phrases # <<>>
    \/ query.paths # <<>>
    \/ query.excludedTerms # <<>>
    \/ query.excludedTags # <<>>
    \/ query.headingTerms # <<>>
    \/ query.frontmatter # {}

PostFilter(doc, query) ==
    /\ query.paths # <<>> => PathFilter(doc, query.paths)
    /\ PhraseFilter(doc, query.phrases)
    /\ ExcludedTermFilter(doc, query.excludedTerms)
    /\ ExcludedTagFilter(doc, query.excludedTags)
    /\ HeadingFilter(doc, query.headingTerms)
    /\ FrontmatterFilter(doc, query.frontmatter)

\* limit hits asked for, whatever the query
searchLimitPlain(query, limit) == limit

\* the number of hits search() asks the engine for
searchLimit(query, limit) == IF needsPostFilter(query) THEN limit * 10 ELSE limit

\* a hit as search() returns it
Result(doc) ==
    [path |-> doc.path, title |-> doc.title, score |-> doc.score,
     matchedTags |-> doc.tags, folder |-> doc.folder]

NoQuery == parseQuery(<<>>)

\* Nothing has been typed.  fuzzy is the fuzzy argument of search(),
\* tolerances the tolerance of each engine search the call has made, first
\* what the first of them came back with ("none", "empty" or "hits").
SearchIdle ==
    [pc |-> "idle", raw |-> <<>>, limit |-> 0, tz |-> 0, docs |-> {},
     query |-> NoQuery, where |-> EmptyWhere, asked |-> 0, hits |-> <<>>,
     results |-> <<>>, fuzzy |-> FALSE, tolerances |-> <<>>, first |-> "none"]

\* No method of the index has been called directly.  survived holds the
\* methods of which a call has returned after its engine remove had failed.
ApiIdle ==
    [n |-> 0, calls |-> <<>>, noops |-> {}, survived |-> {},
     search |-> [state |-> "none", ready |-> FALSE, limit |-> 0, hits |-> <<>>],
     twice |-> [st |-> "idle", path |-> NoPath, count |-> 0, at |-> 0,
                count2 |-> 0, at2 |-> 0, mapped |-> FALSE],
     trip |-> [done |-> FALSE, engine |-> {}, pathToId |-> EmptyMap,
               copy |-> [engine |-> {}, pathToId |-> EmptyMap]]]

\* ids of the documents the index holds when the watchers are registered
InitialId(p) == IF p = PathA THEN -1 ELSE -2

InitialDocs(ps) == {[id |-> InitialId(p), path |-> p] : p \in ps}

InitialMap(ps) == [p \in Keys |-> IF p \in ps THEN InitialId(p) ELSE NoId]

\* The state when initializeServices has registered the file watchers: the
\* index is null (indexOnStartup off) or holds documents of files that are
\* not excluded.
Init ==
    /\ tfile \in FileLayouts
    /\ vault = {f \in FileIds : tfile[f] # NoPath}
    /\ excludedFolders \in {{}, {FolderW}}
    /\ isMobile = FALSE
    /\ dbReady \in BOOLEAN
    /\ \E ps \in SUBSET {tfile[f] : f \in vault} :
          /\ \A p \in ps : ~isExcluded(excludedFolders, p)
          /\ ~dbReady => ps = {}
          /\ engine = InitialDocs(ps)
          /\ pathToId = InitialMap(ps)
    /\ nextId = 1
    /\ pendingUpdates = <<>>
    /\ timeoutId = FALSE
    /\ persistTimeoutId = FALSE
    /\ flushes = <<>>
    /\ removals = <<>>
    /\ saves = <<>>
    /\ stored = NoSnapshot
    /\ unloaded = FALSE
    /\ boot = BootDone
    /\ api = ApiIdle
    /\ persistRejected = FALSE
    /\ sv = SearchIdle
    /\ ask = AskIdle
    /\ deb = DebIdle
    /\ staleTest = NotChecked
    /\ view = ViewIdle
    /\ reindex = <<>>
    /\ nEvents = 0
    /\ dirty = {}
    /\ aborted = <<>>
    /\ mon = MonZero("off")

Next ==
    \/ \E p \in Paths : Create(p)
    \/ \E f \in FileIds : Modify(f)
    \/ \E f \in FileIds : Delete(f)
    \/ \E f \in FileIds, p \in Paths : Rename(f, p)
    \/ TimerFire
    \/ \E k \in 1..MaxEvents, o \in Outcomes : ExtractDone(k, o)
    \/ \E k \in 1..MaxEvents : AfterRemove(k)
    \/ \E k \in 1..MaxEvents : AfterInsert(k)
    \/ \E k \in 1..MaxEvents : FlushNext(k)
    \/ RemoveCont

Spec == Init /\ [][Next]_vars

\* ================================================================ claims
PendingSingle ==
    \A i, j \in 1..Len(pendingUpdates) :
        pendingUpdates[i].key = pendingUpdates[j].key => i = j

\* A burst of create/modify events on one path is over: its single timer
\* firing happened and nothing is in flight.
BurstDone == Quiescent /\ mon.st = "on" /\ mon.ren = "no" /\ mon.fires = 1

LastEventDelete(p) ==
    /\ ~PathInUse(p)
    /\ \E f \in FileIds \ vault : tfile[f] = p

Indexed(p) == DocsAt(engine, p) # {} \/ pathToId[p] # NoId

\* C2 as stated: when all in-flight work has finished, a path whose latest
\* event is a delete is absent from the index.
C2_DeleteIsFinal ==
    \A p \in Paths : Quiescent /\ LastEventDelete(p) => ~Indexed(p)

\* C3 as stated: the engine holds at most one live document per path.
C3_OneLivePerPath ==
    \A p \in Paths : Cardinality(DocsAt(engine, p)) <= 1

\* C4 as stated: when the delete handler returns (the change notification
\* has just fired) the path is in neither the pending map, the engine nor
\* the path-to-id table.
C4_DeleteImmediate ==
    [][\A f \in vault \ vault' :
          /\ ~HasKey(pendingUpdates', tfile[f])
          /\ DocsAt(engine', tfile[f]) = {}
          /\ pathToId'[tfile[f]] = NoId]_vars

\* A rename followed only by edits of the new path is over: the single
\* timer firing happened and nothing is in flight.
RenameDone == Quiescent /\ mon.st = "on" /\ mon.ren # "no" /\ mon.fires = 1

C7_BatchSurvives == aborted = <<>>

\* C23 as stated: when the flush of the events on a path is over and
\* indexFile returned no document for the path (the file is excluded by its
\* folder or by a tag), the index holds no document for the path.
C23_UnindexableRemoved ==
    BurstDone /\ mon.res = "null" => ~Indexed(mon.path)

\* C24 as stated: a flush ends only when the last file of its batch has
\* been extracted (and upserted, if a document came back), and it ends with
\* the one change notification of the batch; no notification fires while a
\* flush goes on or when the timer finds the pending map empty; and when the
\* timer has fired the pending map is empty.
C24_OneNotificationPerBatch ==
    /\ [][Len(flushes') < Len(flushes) =>
             \E k \in 1..Len(flushes) :
                 /\ flushes' = RemoveAt(flushes, k)
                 /\ flushes[k].i = Len(flushes[k].entries)
                 /\ flushes[k].pc \in {"indexFile", "next"}
                 /\ aborted' = aborted
                 /\ persistTimeoutId']_vars
    /\ [][Len(flushes') >= Len(flushes) /\ vault' = vault =>
             persistTimeoutId' = persistTimeoutId]_vars
    /\ [][timeoutId /\ ~timeoutId' =>
             /\ pendingUpdates' = <<>>
             /\ Len(flushes') = Len(flushes) + (IF pendingUpdates = <<>> THEN 0 ELSE 1)
             /\ pendingUpdates # <<>> =>
                   flushes'[Len(flushes')].entries = MapValues(pendingUpdates)]_vars

\* Specification SpecLive: Spec with a timer that fires when it is due and
\* awaited calls that come back.
Fairness ==
    /\ WF_vars(TimerFire)
    /\ WF_vars(\E k \in 1..MaxEvents, o \in Outcomes : ExtractDone(k, o))
    /\ WF_vars(\E k \in 1..MaxEvents : AfterRemove(k))
    /\ WF_vars(\E k \in 1..MaxEvents : AfterInsert(k))
    /\ WF_vars(\E k \in 1..MaxEvents : FlushNext(k))
    /\ WF_vars(RemoveCont)

SpecLive == Spec /\ Fairness

\* C25 as stated: once the events have stopped, the pending map becomes
\* and stays empty, and every file that had a create, modify or rename
\* event and was not deleted afterwards has had an indexFile call after its
\* last event.
C25_NoEventLost == <>[](pendingUpdates = <<>> /\ dirty = {})

\* C36 as stated: a create or modify event leaves the engine and the
\* path-to-id table as they are, and in a burst of such events that began
\* with nothing in flight no step changes them before the timer fires: a
\* search in that window reads the index of before the edits.
C36_EditsWaitForTimer ==
    /\ [][(/\ nEvents' # nEvents
           /\ vault \subseteq vault'
           /\ \A f \in vault : tfile'[f] = tfile[f]) =>
             engine' = engine /\ pathToId' = pathToId]_vars
    /\ [][(/\ mon.st = "on" /\ mon.ren = "no" /\ mon.fires = 0
           /\ mon'.st = "on" /\ mon'.fires = 0) =>
             engine' = engine /\ pathToId' = pathToId]_vars

\* an indexed note has been edited twice and the timer has not fired yet
C36_Witness ==
    /\ mon.st = "on" /\ mon.ren = "no" /\ mon.n = 2 /\ mon.fires = 0
    /\ timeoutId
    /\ pathToId[mon.path] # NoId

\* ------------------------------------------------------------ SpecRename
\* The notes of the vault are edited and renamed, to a .md name or to a
\* name of another extension, while the flushes run.
NextRename ==
    \/ \E f \in FileIds : Modify(f)
    \/ \E f \in FileIds, p \in Paths : RenameFrom(f, p)
    \/ \E f \in FileIds : RenameAway(f)
    \/ TimerFire
    \/ \E k \in 1..MaxEvents, o \in Outcomes : ExtractDone(k, o)
    \/ \E k \in 1..MaxEvents : AfterRemove(k)
    \/ \E k \in 1..MaxEvents : AfterInsert(k)
    \/ \E k \in 1..MaxEvents : FlushNext(k)
    \/ RemoveCont

SpecRename == Init /\ [][NextRename]_vars

\* C29 as stated: when a rename has been handled and all in-flight work has
\* finished, the old path is no longer in the index, whether the new name
\* is a .md name or not, and whatever update of the old path was pending
\* or in flight when the rename arrived.
C29_OldPathGone ==
    Quiescent /\ mon.from # NoPath /\ ~PathInUse(mon.from) => ~Indexed(mon.from)

\* ---------------------------------------------------------- SpecShutdown
\* Edits, flushes, the debounced persist and onunload, on desktop and on
\* mobile.
InitShutdown ==
    /\ tfile \in FileLayouts
    /\ vault = {f \in FileIds : tfile[f] # NoPath}
    /\ excludedFolders = {}
    /\ isMobile \in BOOLEAN
    /\ dbReady \in BOOLEAN
    /\ \E ps \in SUBSET {tfile[f] : f \in vault} :
          /\ ~dbReady => ps = {}
          /\ engine = InitialDocs(ps)
          /\ pathToId = InitialMap(ps)
    /\ nextId = 1
    /\ pendingUpdates = <<>>
    /\ timeoutId = FALSE
    /\ persistTimeoutId = FALSE
    /\ flushes = <<>>
    /\ removals = <<>>
    /\ saves = <<>>
    /\ stored = NoSnapshot
    /\ unloaded = FALSE
    /\ boot = BootDone
    /\ api = ApiIdle
    /\ persistRejected = FALSE
    /\ sv = SearchIdle
    /\ ask = AskIdle
    /\ deb = DebIdle
    /\ staleTest = NotChecked
    /\ view = ViewIdle
    /\ reindex = <<>>
    /\ nEvents = 0
    /\ dirty = {}
    /\ aborted = <<>>
    /\ mon = MonZero("off")

NextShutdown ==
    \/ \E f \in FileIds : Modify(f)
    \/ TimerFire
    \/ \E k \in 1..MaxEvents, o \in Outcomes : ExtractDone(k, o)
    \/ \E k \in 1..MaxEvents : AfterRemove(k)
    \/ \E k \in 1..MaxEvents : AfterInsert(k)
    \/ \E k \in 1..MaxEvents : FlushNext(k)
    \/ \E serialized \in BOOLEAN : PersistFire(serialized)
    \/ \E ok \in BOOLEAN : SaveDone(ok)
    \/ \E serialized \in BOOLEAN : onunload(serialized)

SpecShutdown == InitShutdown /\ [][NextShutdown]_vars

\* C6 as stated: after onunload no debounce timer fires, neither the one
\* that starts flushPendingUpdates nor the one of the debounced persist.
C6_NoTimerAfterUnload ==
    [][unloaded => /\ ~(timeoutId /\ ~timeoutId')
                   /\ ~(persistTimeoutId /\ ~persistTimeoutId')]_vars

\* C11 as stated: no failure of serialization or of the storage write in a
\* persist leaves a rejected promise that nobody handles, and a persist,
\* failed or not, changes neither the engine nor the path-to-id table.
C11_PersistFailureSwallowed ==
    /\ [](~persistRejected)
    /\ [][saves' # saves \/ persistRejected' # persistRejected =>
             engine' = engine /\ pathToId' = pathToId /\ dbReady' = dbReady]_vars

\* The path map of the snapshot names exactly the paths of its documents
\* and its documentCount is their number.
Consistent(snapshot) ==
    /\ {e[1] : e \in snapshot.pathMap} = PathsOf(snapshot.docs)
    /\ snapshot.documentCount = Cardinality(snapshot.docs)

\* C21 as stated: every snapshot that persistIndex hands to saveIndex, and
\* so every snapshot in the store, is consistent, whenever the persist runs.
C21_SnapshotConsistent ==
    /\ \A j \in 1..Len(saves) : Consistent(saves[j])
    /\ stored # NoSnapshot => Consistent(stored)

\* -------------------------------------------------------------- SpecInit
\* CacheManager.initialize() as initializeServices calls it: before the
\* file watchers are registered, on an index whose db is still null.
idleVars == <<tfile, vault, excludedFolders, isMobile, pendingUpdates,
              timeoutId, persistTimeoutId, flushes, removals, unloaded, api,
              persistRejected, sv, ask, deb, staleTest, view, reindex, nEvents, dirty, aborted,
              mon>>

\* What the data column of a stored row can be: a proper snapshot, text
\* that JSON.parse rejects, a raw part that load() rejects, or a missing
\* pathMap, on which Object.entries throws after load() went through.
DataKinds == {"ok", "badjson", "badraw", "badmap"}

Snapshots ==
    {NoSnapshot} \cup
    {[schemaVersion |-> v, data |-> k, docs |-> InitialDocs(ps),
      pathMap |-> fromEntries(InitialMap(ps)), documentCount |-> Cardinality(ps)] :
        v \in {INDEX_SCHEMA_VERSION - 1, INDEX_SCHEMA_VERSION},
        k \in DataKinds, ps \in SUBSET Paths}

InitBoot ==
    /\ tfile \in FileLayouts
    /\ vault = {f \in FileIds : tfile[f] # NoPath}
    /\ excludedFolders \in {{}, {FolderW}}
    /\ isMobile \in BOOLEAN
    /\ stored \in Snapshots
    /\ dbReady = FALSE
    /\ engine = {}
    /\ pathToId = EmptyMap
    /\ nextId = 1
    /\ pendingUpdates = <<>>
    /\ timeoutId = FALSE
    /\ persistTimeoutId = FALSE
    /\ flushes = <<>>
    /\ removals = <<>>
    /\ saves = <<>>
    /\ unloaded = FALSE
    /\ boot = BootIdle
    /\ api = ApiIdle
    /\ persistRejected = FALSE
    /\ sv = SearchIdle
    /\ ask = AskIdle
    /\ deb = DebIdle
    /\ staleTest = NotChecked
    /\ view = ViewIdle
    /\ reindex = <<>>
    /\ nEvents = 0
    /\ dirty = {}
    /\ aborted = <<>>
    /\ mon = MonZero("off")

\* initialize() up to `await this.store.loadIndex(this.vaultId)`.
initialize ==
    /\ boot.pc = "idle"
    /\ boot' = [boot EXCEPT !.pc = "loadIndex"]
    /\ UNCHANGED <<idleVars, dbReady, engine, nextId, pathToId, saves, stored>>

\* The call this.fullRebuild(): up to `await create(...)` in
\* OramaIndex.initialize().
RebuildCall(b) == [b EXCEPT !.pc = "create"]

\* loadIndex comes back (ok) or the read is rejected: the version and
\* staleness tests, JSON.parse, and loadFromSnapshot up to its await.
LoadIndexDone(ok) ==
    /\ boot.pc = "loadIndex"
    /\ LET cached == IF ok THEN loadIndex(stored) ELSE NoSnapshot
           b == [boot EXCEPT !.read = ok, !.snap = stored]
       IN IF \/ cached = NoSnapshot
             \/ isStale(cached.documentCount, getFileCount)
             \/ cached.data = "badjson"
          THEN boot' = RebuildCall(b)
          ELSE boot' = [b EXCEPT !.pc = "snapCreate"]
    /\ UNCHANGED <<idleVars, dbReady, engine, nextId, pathToId, saves, stored>>

\* loadFromSnapshot resumes after `await create(...)`: load() and the new
\* pathToId.  A load() that throws leaves any part of the snapshot's
\* documents in the engine.
SnapCreateDone(part) ==
    /\ boot.pc = "snapCreate"
    /\ dbReady' = TRUE
    /\ part \subseteq boot.snap.docs
    /\ CASE boot.snap.data = "ok" ->
              /\ part = boot.snap.docs
              /\ engine' = loadFromSnapshot(boot.snap.docs, boot.snap.pathMap).engine
              /\ pathToId' = loadFromSnapshot(boot.snap.docs, boot.snap.pathMap).pathToId
              /\ boot' = [boot EXCEPT !.pc = "snapLoaded"]
         [] boot.snap.data = "badmap" ->
              /\ part = boot.snap.docs
              /\ engine' = boot.snap.docs
              /\ pathToId' = pathToId
              /\ boot' = RebuildCall(boot)
         [] OTHER ->
              /\ engine' = part
              /\ pathToId' = pathToId
              /\ boot' = RebuildCall(boot)
    /\ UNCHANGED <<idleVars, nextId, saves, stored>>

\* initialize() resumes after `await this.index.loadFromSnapshot(...)` and
\* returns the status built from the cached row.
SnapLoaded ==
    /\ boot.pc = "snapLoaded"
    /\ boot' = [boot EXCEPT !.pc = "loaded",
                            !.documentCount = boot.snap.documentCount]
    /\ UNCHANGED <<idleVars, dbReady, engine, nextId, pathToId, saves, stored>>

\* The end of indexAllStreaming in fullRebuild: persistIndex up to
\* `await saveIndex` on desktop, the returned status on mobile.
RebuildFinish(b, docs, map) ==
    IF isMobile
    THEN /\ boot' = [b EXCEPT !.pc = "rebuilt", !.documentCount = b.docCount]
         /\ saves' = saves
    ELSE /\ boot' = [b EXCEPT !.pc = "persist"]
         /\ saves' = persistIndex(isMobile, TRUE, docs, map, saves)

\* The loop of indexAllStreaming after file i: the next indexFile call or
\* the end of the loop.
RebuildAdvance(b, docs, map) ==
    IF b.i < Len(b.files)
    THEN /\ boot' = [b EXCEPT !.pc = "indexFile", !.i = b.i + 1,
                       !.excl = isExcluded(excludedFolders, tfile[b.files[b.i + 1]])]
         /\ saves' = saves
    ELSE RebuildFinish(b, docs, map)

\* OramaIndex.initialize() resumes after `await create(...)`: a new empty
\* db and an empty pathToId; then indexAllStreaming up to its first await.
RebuildCreated ==
    /\ boot.pc = "create"
    /\ dbReady' = TRUE
    /\ engine' = {}
    /\ pathToId' = EmptyMap
    /\ RebuildAdvance([boot EXCEPT !.files = getIndexableFiles, !.i = 0,
                                   !.docCount = 0], {}, EmptyMap)
    /\ UNCHANGED <<idleVars, nextId, stored>>

\* `await this.indexFile(file)` comes back in indexAllStreaming.  The
\* table was emptied when the rebuild began and no two files share a path,
\* so upsertDocument finds no existing id here.
RebuildExtractDone(o) ==
    /\ boot.pc = "indexFile"
    /\ boot.excl => o = "null"
    /\ LET path == tfile[boot.files[boot.i]]
           u == upsertDocument(dbReady, engine, pathToId, nextId, path)
       IN CASE o = "throw" ->
                 /\ boot' = [boot EXCEPT !.pc = "failed"]
                 /\ UNCHANGED <<engine, nextId, saves>>
            [] o = "null" ->
                 /\ UNCHANGED <<engine, nextId>>
                 /\ RebuildAdvance(boot, engine, pathToId)
            [] o = "doc" ->
                 /\ boot' = [boot EXCEPT !.pc = u.pc, !.id = u.id, !.path = path]
                 /\ engine' = u.engine
                 /\ nextId' = u.nextId
                 /\ saves' = saves
    /\ UNCHANGED <<idleVars, dbReady, pathToId, stored>>

\* upsertDocument of the rebuild resumes after `await insert(...)`.
RebuildAfterInsert ==
    /\ boot.pc = "insert"
    /\ pathToId' = [pathToId EXCEPT ![boot.path] = boot.id]
    /\ boot' = [boot EXCEPT !.pc = "next"]
    /\ UNCHANGED <<idleVars, dbReady, engine, nextId, saves, stored>>

\* indexAllStreaming resumes after `await onDocument(doc)`: docCount++.
RebuildNext ==
    /\ boot.pc = "next"
    /\ UNCHANGED <<dbReady, engine, pathToId>>
    /\ RebuildAdvance([boot EXCEPT !.docCount = boot.docCount + 1],
                      engine, pathToId)
    /\ UNCHANGED <<idleVars, nextId, stored>>

\* fullRebuild resumes after `await this.persistIndex()`: the write went
\* through (ok) or failed and was swallowed by the try/catch.
RebuildPersisted(ok) ==
    /\ boot.pc = "persist"
    /\ saves # <<>>
    /\ stored' = IF ok THEN Head(saves) ELSE stored
    /\ saves' = Tail(saves)
    /\ boot' = [boot EXCEPT !.pc = "rebuilt", !.documentCount = boot.docCount,
                            !.saved = ok]
    /\ UNCHANGED <<idleVars, dbReady, engine, nextId, pathToId>>

\* The application is closed after initialize() has returned and started
\* again on the same vault: a new plugin object with db null and an empty
\* pathToId; the store keeps its row.
Restart ==
    /\ boot.pc \in {"loaded", "rebuilt"}
    /\ boot.fresh = "first"
    /\ saves = <<>>
    /\ dbReady' = FALSE
    /\ engine' = {}
    /\ pathToId' = EmptyMap
    /\ boot' = [BootIdle EXCEPT !.fresh = IF boot.saved THEN "yes" ELSE "no"]
    /\ UNCHANGED <<idleVars, nextId, saves, stored>>

NextBoot ==
    \/ initialize
    \/ \E ok \in BOOLEAN : LoadIndexDone(ok)
    \/ \E part \in SUBSET InitialDocs(Paths) : SnapCreateDone(part)
    \/ SnapLoaded
    \/ RebuildCreated
    \/ \E o \in Outcomes : RebuildExtractDone(o)
    \/ RebuildAfterInsert
    \/ RebuildNext
    \/ \E ok \in BOOLEAN : RebuildPersisted(ok)
    \/ Restart

SpecInit == InitBoot /\ [][NextBoot]_vars

\* The snapshot initialize() found is one it may trust: it exists, was
\* read, has the running schema version, is not stale and deserializes.
Trusted ==
    /\ boot.read
    /\ boot.snap # NoSnapshot
    /\ boot.snap.schemaVersion = INDEX_SCHEMA_VERSION
    /\ ~(getFileCount > 0 /\ 10 * boot.snap.documentCount < 8 * getFileCount)
    /\ boot.snap.data = "ok"

\* Nothing of a snapshot is in the index: snapshot documents carry the
\* ids below 0, documents inserted since the start carry the ids above 0.
NothingOfSnapshot ==
    /\ \A d \in engine : d.id > 0
    /\ \A p \in Paths : pathToId[p] >= 0

\* C8: initialize() ends with the snapshot loaded exactly when the
\* snapshot is trusted; otherwise a full rebuild ran, the index holds
\* nothing of the snapshot and the returned count is the rebuild's.
C8_SnapshotLoadedIffTrusted ==
    /\ boot.pc = "loaded" =>
          /\ Trusted
          /\ engine = boot.snap.docs
          /\ fromEntries(pathToId) = boot.snap.pathMap
          /\ boot.documentCount = boot.snap.documentCount
    /\ boot.pc \in {"indexFile", "insert", "next", "persist", "rebuilt", "failed"} =>
          /\ ~Trusted
          /\ NothingOfSnapshot
    /\ boot.pc = "rebuilt" => boot.documentCount = boot.docCount

C8_Witness ==
    /\ boot.pc = "rebuilt"
    /\ boot.snap.data = "badmap"
    /\ boot.snap.schemaVersion = INDEX_SCHEMA_VERSION
    /\ boot.snap.docs # {}
    /\ engine # {}

\* The snapshot initialize() found is corrupt, of another version or stale.
Invalid == boot.snap # NoSnapshot /\ boot.read /\ ~Trusted

\* C9 as stated: with an invalid snapshot initialize() does not fail; it
\* ends after a full rebuild with the index ready and nothing of the
\* snapshot in it.
C9_InvalidSnapshotRecovered ==
    (Invalid /\ boot.pc \in {"loaded", "rebuilt", "failed"}) =>
        /\ boot.pc = "rebuilt"
        /\ dbReady
        /\ NothingOfSnapshot

\* C26 as stated: when the run before ended a full rebuild and wrote its
\* snapshot, and the vault and the settings are as they were, initialize()
\* reads that snapshot and loads it; it does not rebuild.
C26_FreshSnapshotAccepted ==
    (boot.fresh = "yes" /\ boot.read /\ boot.pc \notin {"idle", "loadIndex"}) =>
        boot.pc \in {"snapCreate", "snapLoaded", "loaded"}

\* ------------------------------------------------------------- SpecIndex
\* The OramaIndex object from its construction, its methods called in any
\* order and interleaving by the rest of the plugin.
MaxCalls == 4      \* calls of OramaIndex methods in one run

Queries == {"q1", "q2"}

Limits == 0..2

\* What the engine's search can answer: its live documents' paths, ranked
\* in an order and cut to a number that are the engine's business.
EngineHits(docs) ==
    {<<>>} \cup {<<d.path>> : d \in docs}
           \cup {<<x[1].path, x[2].path>> : x \in {y \in docs \X docs : y[1] # y[2]}}

\* search() without the test of db: the engine's search is handed null and
\* throws.
searchUnguarded(ready, query, limit, passing) ==
    IF ~ready
    THEN [state |-> "threw", ready |-> FALSE, limit |-> limit, hits |-> <<>>]
    ELSE [state |-> "returned", ready |-> TRUE, limit |-> limit,
          hits |-> Take(passing, limit)]

\* search(): [] while db is null, else the engine's hits that pass the
\* post-filters (passing), cut to limit.
search(ready, query, limit, passing) ==
    IF ~ready
    THEN [state |-> "returned", ready |-> FALSE, limit |-> limit, hits |-> <<>>]
    ELSE [state |-> "returned", ready |-> TRUE, limit |-> limit,
          hits |-> Take(passing, limit)]

InitIndex ==
    /\ tfile = [f \in FileIds |-> NoPath]
    /\ vault = {}
    /\ excludedFolders = {}
    /\ isMobile = FALSE
    /\ dbReady = FALSE
    /\ engine = {}
    /\ pathToId = EmptyMap
    /\ nextId = 1
    /\ pendingUpdates = <<>>
    /\ timeoutId = FALSE
    /\ persistTimeoutId = FALSE
    /\ flushes = <<>>
    /\ removals = <<>>
    /\ saves = <<>>
    /\ stored = NoSnapshot
    /\ unloaded = FALSE
    /\ boot = BootIdle
    /\ api = ApiIdle
    /\ persistRejected = FALSE
    /\ sv = SearchIdle
    /\ ask = AskIdle
    /\ deb = DebIdle
    /\ staleTest = NotChecked
    /\ view = ViewIdle
    /\ reindex = <<>>
    /\ nEvents = 0
    /\ dirty = {}
    /\ aborted = <<>>
    /\ mon = MonZero("off")

restVars == <<tfile, vault, excludedFolders, isMobile, pendingUpdates,
              timeoutId, persistTimeoutId, flushes, removals, saves, stored,
              unloaded, boot, persistRejected, sv, ask, deb, staleTest, view, reindex, nEvents,
              dirty, aborted, mon>>

\* The monitor of two upsertDocument calls of one path, the second made
\* when the first has returned, with no other call of the index in between:
\* a call of upsertDocument(path) with the calls in inflight suspended.
TwiceCall(t, path, inflight) ==
    IF inflight # <<>> THEN [t EXCEPT !.st = "void"]
    ELSE IF t.st = "between" /\ t.path = path THEN [t EXCEPT !.st = "second"]
    ELSE [t EXCEPT !.st = "first", !.path = path]

\* the upsertDocument call returns, the index being (docs, map)
TwiceReturn(t, docs, map) ==
    IF t.st = "first"
    THEN [t EXCEPT !.st = "between", !.count = Cardinality(docs),
                   !.at = Cardinality(DocsAt(docs, t.path))]
    ELSE IF t.st = "second"
    THEN [t EXCEPT !.st = "done", !.count2 = Cardinality(docs),
                   !.at2 = Cardinality(DocsAt(docs, t.path)),
                   !.mapped = \E d \in DocsAt(docs, t.path) : d.id = map[t.path]]
    ELSE t

\* a call of another method
TwiceOther(t) == [t EXCEPT !.st = "void"]

Called(op) == [api EXCEPT !.n = @ + 1,
                          !.noops = IF dbReady THEN @ ELSE @ \cup {op},
                          !.twice = TwiceOther(@)]

\* The engine has no document of the id the table has for the path:
\* remove(this.db, id) fails.
RemoveFails(docs, map, path) ==
    map[path] # NoId /\ ~\E d \in docs : d.id = map[path]

\* A call is suspended; failed tells whether the engine remove it awaits
\* has failed.
Suspended(a, op, pc, path, id, failed) ==
    [a EXCEPT !.calls = Append(@, [op |-> op, pc |-> pc, path |-> path,
                                   id |-> id, failed |-> failed])]

\* index.initialize() up to `await create(...)`.
InitializeCall ==
    /\ api.n < MaxCalls
    /\ api' = Suspended([api EXCEPT !.n = @ + 1, !.twice = TwiceOther(@)],
                         "initialize", "create", NoPath, NoId, FALSE)
    /\ UNCHANGED <<restVars, dbReady, engine, nextId, pathToId>>

\* index.initialize() resumes: the new db is assigned, pathToId cleared.
InitializeDone(k) ==
    /\ k \in 1..Len(api.calls)
    /\ api.calls[k].op = "initialize"
    /\ dbReady' = TRUE
    /\ engine' = {}
    /\ pathToId' = EmptyMap
    /\ api' = [api EXCEPT !.calls = RemoveAt(@, k)]
    /\ UNCHANGED <<restVars, nextId>>

\* index.upsertDocument(doc) up to its first await.
UpsertCall(path) ==
    /\ api.n < MaxCalls
    /\ LET u == upsertDocument(dbReady, engine, pathToId, nextId, path)
       IN /\ engine' = u.engine
          /\ nextId' = u.nextId
          /\ api' = LET t == TwiceCall(api.twice, path, api.calls)
                    IN IF u.pc = "next"
                       THEN [Called("upsert") EXCEPT
                                !.twice = TwiceReturn(t, u.engine, pathToId)]
                       ELSE Suspended([Called("upsert") EXCEPT !.twice = t],
                                      "upsert", u.pc, path, u.id,
                                      RemoveFails(engine, pathToId, path))
    /\ UNCHANGED <<restVars, dbReady, pathToId>>

\* upsertDocument resumes after `await remove(...)`.
UpsertAfterRemove(k) ==
    /\ k \in 1..Len(api.calls)
    /\ api.calls[k].op = "upsert"
    /\ api.calls[k].pc = "remove"
    /\ engine' = EngineInsert(engine, nextId, api.calls[k].path)
    /\ nextId' = nextId + 1
    /\ api' = [api EXCEPT !.calls[k].pc = "insert", !.calls[k].id = nextId]
    /\ UNCHANGED <<restVars, dbReady, pathToId>>

\* upsertDocument resumes after `await remove(...)` and insert() throws:
\* the call is rejected before pathToId.set, the old id stays in the table.
UpsertInsertThrows(k) ==
    /\ k \in 1..Len(api.calls)
    /\ api.calls[k].op = "upsert"
    /\ api.calls[k].pc = "remove"
    /\ api' = [api EXCEPT !.calls = RemoveAt(@, k), !.twice = TwiceOther(@)]
    /\ UNCHANGED <<restVars, dbReady, engine, nextId, pathToId>>

\* upsertDocument resumes after `await insert(...)`.
UpsertAfterInsert(k) ==
    /\ k \in 1..Len(api.calls)
    /\ api.calls[k].op = "upsert"
    /\ api.calls[k].pc = "insert"
    /\ pathToId' = [pathToId EXCEPT ![api.calls[k].path] = api.calls[k].id]
    /\ api' = [api EXCEPT !.calls = RemoveAt(@, k),
                          !.twice = TwiceReturn(@, engine, pathToId'),
                          !.survived = IF api.calls[k].failed
                                       THEN @ \cup {"upsert"} ELSE @]
    /\ UNCHANGED <<restVars, dbReady, engine, nextId>>

\* index.removeDocument(path) up to its await.
RemoveCall(path) ==
    /\ api.n < MaxCalls
    /\ LET r == removeDocument(dbReady, engine, pathToId, path)
       IN /\ engine' = r.engine
          /\ api' = IF r.suspended
                    THEN Suspended(Called("remove"), "remove", "remove", path,
                                   NoId, RemoveFails(engine, pathToId, path))
                    ELSE Called("remove")
    /\ UNCHANGED <<restVars, dbReady, nextId, pathToId>>

\* removeDocument after `await remove(...)` with no catch: a failure of
\* the remove ends the call before pathToId.delete.
removeDocumentUncaught(map, path, failed) ==
    IF failed THEN map ELSE [map EXCEPT ![path] = NoId]

\* removeDocument after `await remove(...)`: the catch swallows a failure,
\* then pathToId.delete(path).
removeDocumentResume(map, path, failed) == [map EXCEPT ![path] = NoId]

\* removeDocument resumes after `await remove(...)`.
RemoveDone(k) ==
    /\ k \in 1..Len(api.calls)
    /\ api.calls[k].op = "remove"
    /\ pathToId' = removeDocumentResume(pathToId, api.calls[k].path,
                                        api.calls[k].failed)
    /\ api' = [api EXCEPT !.calls = RemoveAt(@, k),
                          !.survived = IF api.calls[k].failed
                                       THEN @ \cup {"remove"} ELSE @]
    /\ UNCHANGED <<restVars, dbReady, engine, nextId>>

\* index.loadFromSnapshot(raw, pathMap) with the snapshot of the documents
\* at the paths ps: load() and the new pathToId at once if db is set, else
\* suspended at `await create(...)`.
LoadCall(ps) ==
    /\ api.n < MaxCalls
    /\ LET snapshot == serialize(InitialDocs(ps), InitialMap(ps))
           loaded == loadFromSnapshot(snapshot.docs, snapshot.pathMap)
           called == [api EXCEPT !.n = @ + 1, !.twice = TwiceOther(@)]
       IN IF dbReady
          THEN /\ engine' = loaded.engine
               /\ pathToId' = loaded.pathToId
               /\ api' = called
          ELSE /\ UNCHANGED <<engine, pathToId>>
               /\ api' = Suspended(called, "load", "create", NoPath, NoId, FALSE)
    /\ UNCHANGED <<restVars, dbReady, nextId>>

\* loadFromSnapshot resumes after `await create(...)`: the new db is
\* assigned, then load() and the new pathToId.
LoadDone(k, ps) ==
    /\ k \in 1..Len(api.calls)
    /\ api.calls[k].op = "load"
    /\ LET snapshot == serialize(InitialDocs(ps), InitialMap(ps))
           loaded == loadFromSnapshot(snapshot.docs, snapshot.pathMap)
       IN /\ engine' = loaded.engine
          /\ pathToId' = loaded.pathToId
    /\ dbReady' = TRUE
    /\ api' = [api EXCEPT !.calls = RemoveAt(@, k)]
    /\ UNCHANGED <<restVars, nextId>>

\* index.search(query, limit, ...) and what it returns.
SearchCall(query, limit, passing) ==
    /\ api.n < MaxCalls
    /\ passing \in EngineHits(engine)
    /\ api' = [api EXCEPT !.n = @ + 1,
                          !.twice = TwiceOther(@),
                          !.search = search(dbReady, query, limit, passing)]
    /\ UNCHANGED <<restVars, dbReady, engine, nextId, pathToId>>

\* index.serialize() and, if it returns a snapshot, loadFromSnapshot of it
\* on a newly constructed OramaIndex, after JSON.stringify and JSON.parse as
\* persistIndex and CacheManager.initialize pass it on.
RoundTrip ==
    /\ api.n < MaxCalls
    /\ dbReady
    /\ LET snapshot == serialize(engine, pathToId)
       IN api' = [api EXCEPT
                    !.n = @ + 1,
                    !.twice = TwiceOther(@),
                    !.trip = [done |-> TRUE, engine |-> engine,
                              pathToId |-> pathToId,
                              copy |-> loadFromSnapshot(snapshot.docs,
                                                        snapshot.pathMap)]]
    /\ UNCHANGED <<restVars, dbReady, engine, nextId, pathToId>>

NextIndex ==
    \/ InitializeCall
    \/ \E k \in 1..MaxCalls : InitializeDone(k)
    \/ \E p \in Paths : UpsertCall(p)
    \/ \E k \in 1..MaxCalls : UpsertAfterRemove(k)
    \/ \E k \in 1..MaxCalls : UpsertInsertThrows(k)
    \/ \E k \in 1..MaxCalls : UpsertAfterInsert(k)
    \/ \E ps \in SUBSET Paths : LoadCall(ps)
    \/ \E k \in 1..MaxCalls, ps \in SUBSET Paths : LoadDone(k, ps)
    \/ \E p \in Paths : RemoveCall(p)
    \/ \E k \in 1..MaxCalls : RemoveDone(k)
    \/ \E q \in Queries, l \in Limits :
          \E h \in EngineHits(engine) : SearchCall(q, l, h)
    \/ RoundTrip

SpecIndex == InitIndex /\ [][NextIndex]_vars

\* C10: a search made while db is null returns the empty list and does not
\* throw, whatever the query and the limit; and as long as db is null no
\* step, the upsertDocument and removeDocument calls among them, changes
\* the path-to-id table or the engine.
C10_NotReadyIsEmptyAndInert ==
    /\ [](~api.search.ready /\ api.search.state # "none" =>
             api.search.state = "returned" /\ api.search.hits = <<>>)
    /\ [][~dbReady /\ ~dbReady' =>
             pathToId' = pathToId /\ engine' = engine]_vars

C10_Witness ==
    /\ ~dbReady
    /\ api.search.state = "returned"
    /\ api.search.limit = 2
    /\ api.noops = {"upsert", "remove"}

C22_Lockstep ==
    api.calls = <<>> =>
        \A p \in Paths :
            IF pathToId[p] = NoId
            THEN DocsAt(engine, p) = {}
            ELSE DocsAt(engine, p) = {[id |-> pathToId[p], path |-> p]}

\* C33 as stated: a removeDocument whose engine remove fails returns and
\* leaves the path without its table entry and the engine as it is; a
\* removeDocument of a path the table does not have changes neither the
\* engine nor the table and suspends nothing; an upsertDocument whose
\* engine remove fails goes on to insert its new document and, when the
\* insert has returned, points the table at it.
C33_RemoveFailureIgnored ==
    /\ [][\A k \in 1..MaxCalls :
            RemoveDone(k) /\ api.calls[k].failed =>
               /\ pathToId'[api.calls[k].path] = NoId
               /\ engine' = engine]_vars
    /\ [][\A p \in Paths :
            RemoveCall(p) /\ pathToId[p] = NoId =>
               /\ engine' = engine
               /\ pathToId' = pathToId
               /\ api'.calls = api.calls]_vars
    /\ [][\A k \in 1..MaxCalls :
            UpsertAfterRemove(k) /\ api.calls[k].failed =>
               /\ api'.calls[k].failed
               /\ [id |-> api'.calls[k].id, path |-> api.calls[k].path]
                     \in engine' \ engine]_vars
    /\ [][\A k \in 1..MaxCalls :
            UpsertAfterInsert(k) /\ api.calls[k].failed =>
               /\ api.calls[k].id # NoId
               /\ pathToId'[api.calls[k].path] = api.calls[k].id]_vars

\* a removeDocument and an upsertDocument have returned after a failing
\* engine remove
C33_Witness == api.survived = {"remove", "upsert"} /\ api.calls = <<>>

\* ------------------------------------------------------------ SpecSearch
\* One query in the search modal: getSuggestions parses the text and calls
\* search() on a ready index; the engine answers; search() filters, cuts
\* and returns.
MaxTokens == 2     \* tokens of a query
MaxDocs == 2       \* documents in the index
MaxLimit == 1      \* the maxResults setting

Ext == <<".", "m", "d">>

Document(folder, basename, tags, frontmatter, createdAt, score) ==
    [path |-> (IF folder = <<>> THEN <<>> ELSE folder \o <<"/">>) \o basename \o Ext,
     title |-> basename, content |-> <<>>, headings |-> <<>>,
     tags |-> tags, folder |-> folder, frontmatter |-> frontmatter,
     createdAt |-> createdAt, modifiedAt |-> createdAt, score |-> score]

\* The notes a vault can hold: in folder w, in its subfolder w/p, in the
\* folder ws whose name starts with w, in W and in the root; created around
\* both ends of day 1.
DocPool ==
    {Document(<<"w">>, <<"a">>, {<<"a">>}, <<"k", ":", "a">>, 4, 6),
     Document(<<"w", "/", "p">>, <<"b">>, {<<"a">>, <<"b">>}, <<"k", ":", "b">>, 7, 5),
     Document(<<"w", "s">>, <<"a">>, {<<"b">>}, <<>>, 8, 4),
     Document(<<>>, <<"b">>, {}, <<"k", ":", "a">>, 3, 3),
     Document(<<"W">>, <<"b">>, {<<"a">>}, <<>>, 5, 2),
     Document(<<"w", "s">>, <<"b">>, {<<"a">>, <<"B">>}, <<>>, 9, 1)}

\* The tokens a query is made of:  a  -b  #a  -#b  path:w  file:a  title:a
\* created:<day 1>  created:><day 1>  created:<<day 2>  k:a  k:b
TokenPool ==
    {Token("", FALSE, FALSE, <<"a">>, "", 0),
     Token("", TRUE, FALSE, <<"b">>, "", 0),
     Token("", FALSE, TRUE, <<"a">>, "", 0),
     Token("", TRUE, TRUE, <<"b">>, "", 0),
     Token("path", FALSE, FALSE, <<"w">>, "", 0),
     Token("file", FALSE, FALSE, <<"a">>, "", 0),
     Token("title", FALSE, FALSE, <<"a">>, "", 0),
     Token("created", FALSE, FALSE, <<>>, "", 1),
     Token("created", FALSE, FALSE, <<>>, ">", 1),
     Token("created", FALSE, FALSE, <<>>, "<", 2),
     Token("k", FALSE, FALSE, <<"a">>, "", 0),
     Token("k", FALSE, FALSE, <<"b">>, "", 0)}

RawQueries == UNION {[1..n -> TokenPool] : n \in 1..MaxTokens}

\* offsets of local time from UTC, in the unit of the timestamps
TimeZones == {-1, 0, 1}

InitSearch ==
    /\ tfile = [f \in FileIds |-> NoPath]
    /\ vault = {}
    /\ excludedFolders = {}
    /\ isMobile = FALSE
    /\ dbReady = TRUE
    /\ engine = {}
    /\ pathToId = EmptyMap
    /\ nextId = 1
    /\ pendingUpdates = <<>>
    /\ timeoutId = FALSE
    /\ persistTimeoutId = FALSE
    /\ flushes = <<>>
    /\ removals = <<>>
    /\ saves = <<>>
    /\ stored = NoSnapshot
    /\ unloaded = FALSE
    /\ boot = BootDone
    /\ api = ApiIdle
    /\ persistRejected = FALSE
    /\ \E raw \in RawQueries, limit \in 0..MaxLimit, tz \in TimeZones,
          docs \in {ds \in SUBSET DocPool : Cardinality(ds) <= MaxDocs} :
          sv = [SearchIdle EXCEPT !.pc = "typed", !.raw = raw, !.limit = limit,
                                  !.tz = tz, !.docs = docs]
    /\ ask = AskIdle
    /\ deb = DebIdle
    /\ staleTest = NotChecked
    /\ view = ViewIdle
    /\ reindex = <<>>
    /\ nEvents = 0
    /\ dirty = {}
    /\ aborted = <<>>
    /\ mon = MonZero("off")

searchVars == <<tfile, vault, excludedFolders, isMobile, dbReady, engine,
                nextId, pathToId, pendingUpdates, timeoutId, persistTimeoutId,
                flushes, removals, saves, stored, unloaded, boot, api,
                persistRejected, ask, deb, staleTest, view, reindex, nEvents, dirty, aborted,
                mon>>

\* getSuggestions: parseQuery(query).
ParseQuery ==
    /\ sv.pc = "typed"
    /\ sv' = [sv EXCEPT !.pc = "parsed", !.query = parseQuery(sv.raw)]
    /\ UNCHANGED searchVars

\* search() up to `await search(this.db, ...)`: the where clause, the term
\* and the number of hits asked for.
SearchAsk ==
    /\ sv.pc = "parsed"
    /\ dbReady
    /\ sv' = [sv EXCEPT !.pc = "engine",
                        !.where = buildWhereClause(sv.query, sv.tz),
                        !.asked = searchLimit(sv.query, sv.limit)]
    /\ UNCHANGED searchVars

\* search() resumes with the engine's hits, filters them, cuts to limit and
\* returns.
SearchReturn ==
    /\ sv.pc = "engine"
    /\ LET hits == EngineSearch(sv.docs, sv.query.text, sv.where, sv.asked)
           passing == SelectSeq(hits, LAMBDA d : PostFilter(d, sv.query))
           cut == search(dbReady, sv.query, sv.limit, passing).hits
       IN sv' = [sv EXCEPT !.pc = "done", !.hits = hits,
                           !.results = [j \in 1..Len(cut) |-> Result(cut[j])]]
    /\ UNCHANGED searchVars

NextSearch ==
    \/ ParseQuery
    \/ SearchAsk
    \/ SearchReturn

SpecSearch == InitSearch /\ [][NextSearch]_vars

Range(seq) == {seq[j] : j \in 1..Len(seq)}

\* the hits of the engine that pass every post-filter of the query
Passing == SelectSeq(sv.hits, LAMBDA d : PostFilter(d, sv.query))

UnderPath(folder, path, p) ==
    \/ toLowerCase(folder) = toLowerCase(p)
    \/ startsWith(toLowerCase(folder), toLowerCase(p) \o <<"/">>)
    \/ startsWith(toLowerCase(path), toLowerCase(p) \o <<"/">>)

\* C15 as stated: with path filters in the query a document passes the
\* path post-filter exactly if its folder equals a filter value p, its
\* folder lies under p/ or its path lies under p/, case-insensitively, so
\* that every result does; path:w does not match the folder ws.
C15_PathFilterSubfolders ==
    (sv.pc = "done" /\ sv.query.paths # <<>>) =>
        /\ \A d \in sv.docs :
              PathFilter(d, sv.query.paths) <=>
                 \E j \in 1..Len(sv.query.paths) :
                     UnderPath(d.folder, d.path, sv.query.paths[j])
        /\ \A j \in 1..Len(sv.results) :
              \E k \in 1..Len(sv.query.paths) :
                  UnderPath(sv.results[j].folder, sv.results[j].path,
                            sv.query.paths[k])

\* the tokens #tag and -#tag of the raw query
TagTokens(neg) ==
    {sv.raw[j].val : j \in {i \in 1..Len(sv.raw) :
        sv.raw[i].pre = "" /\ sv.raw[i].hash /\ sv.raw[i].neg = neg /\ sv.raw[i].val # <<>>}}

\* C16: every result carries every tag a the query names as #a and none of
\* the tags b it names as -#b, in whatever order the tokens stand.
C16_TagsAndExcludedTags ==
    sv.pc = "done" =>
        \A j \in 1..Len(sv.results) :
            /\ \A a \in TagTokens(FALSE) : a \in sv.results[j].matchedTags
            /\ \A b \in TagTokens(TRUE) : b \notin sv.results[j].matchedTags

\* -#b before #a, a document tagged a and b in the index and one result
C16_Witness ==
    /\ sv.pc = "done"
    /\ sv.raw = <<Token("", TRUE, TRUE, <<"b">>, "", 0),
                  Token("", FALSE, TRUE, <<"a">>, "", 0)>>
    /\ \E d \in sv.docs : d.tags = {<<"a">>, <<"b">>}
    /\ Len(sv.results) = 1

\* the calendar day, in local time, of a timestamp
LocalDay(t, tz) == (t + tz) \div DayTicks

\* the days the query names as created:YYYY-MM-DD
CreatedOn ==
    {sv.raw[j].day : j \in {i \in 1..Len(sv.raw) :
        sv.raw[i].pre = "created" /\ sv.raw[i].op = "" /\ sv.raw[i].day # 0}}

\* C17 as stated: with created:D in the query the engine is asked for the
\* documents created from the first to the last instant of day D, so that
\* every result was created on day D and none on a neighbouring day.
C17_DateOnDay ==
    sv.pc = "done" =>
        \A day \in CreatedOn :
            /\ sv.where.createdAt.op = "between"
            /\ \A d \in sv.docs :
                  InRange(d.createdAt, sv.where.createdAt) <=>
                     LocalDay(d.createdAt, sv.tz) = day
            /\ \A j \in 1..Len(sv.results) :
                  \E d \in sv.docs :
                      /\ d.path = sv.results[j].path
                      /\ LocalDay(d.createdAt, sv.tz) = day

\* the field of the parsed query that holds the token, "" if none does
HeldIn(t, q) ==
    {f \in {"text", "tags", "excludedTags", "excludedTerms", "paths",
            "fileTerms", "frontmatter", "dateFilters"} :
        CASE f = "text" -> Rule(t) = "text" /\ TokenText(t) \in Range(q.text)
          [] f = "tags" -> \/ Rule(t) = "#" /\ t.val \in Range(q.tags)
                           \/ Rule(t) = "tag" /\ Value(t) \in Range(q.tags)
          [] f = "excludedTags" -> Rule(t) = "-#" /\ t.val \in Range(q.excludedTags)
          [] f = "excludedTerms" -> Rule(t) = "-word" /\ t.val \in Range(q.excludedTerms)
          [] f = "paths" -> Rule(t) \in {"path", "folder"} /\ Value(t) \in Range(q.paths)
          [] f = "fileTerms" -> Rule(t) \in {"file", "title"} /\ Value(t) \in Range(q.fileTerms)
          [] f = "frontmatter" -> Rule(t) = "key:value" /\ <<t.pre, Value(t)>> \in q.frontmatter
          [] f = "dateFilters" ->
                /\ Rule(t) \in {"created", "modified"}
                /\ \E x \in Range(q.dateFilters) : x.field = t.pre /\ x.date = t.day}

\* C18 as stated: parseQuery returns for every raw query, and every token
\* of the query is held by exactly one field of the result, the residual
\* text being one of them.
C18_NoTokenLost ==
    sv.pc \in {"parsed", "engine", "done"} =>
        \A j \in 1..Len(sv.raw) : Cardinality(HeldIn(sv.raw[j], sv.query)) = 1

\* the terms the query names as file:term or title:term
FileTokens ==
    {Value(sv.raw[j]) : j \in {i \in 1..Len(sv.raw) :
        sv.raw[i].pre \in {"file", "title"} /\ Value(sv.raw[i]) # <<>>}}

\* C19 as stated: with file:term or title:term in the query every result
\* is a document whose title contains term.
C19_FileTermRestricts ==
    sv.pc = "done" =>
        \A term \in FileTokens :
            \A j \in 1..Len(sv.results) :
                includes(toLowerCase(sv.results[j].title), toLowerCase(term))

\* the field of a document a date filter reads
DateField(d, filter) == IF filter.field = "created" THEN d.createdAt ELSE d.modifiedAt

\* C28 as stated: every date filter of the query constrains the results: a
\* returned document lies in the range of each of them, of the first of two
\* filters on the same field as well as of the last.
C28_EveryDateFilterApplies ==
    sv.pc = "done" =>
        \A j \in 1..Len(sv.results) :
            \A d \in {x \in sv.docs : x.path = sv.results[j].path} :
                \A l \in 1..Len(sv.query.dateFilters) :
                    InRange(DateField(d, sv.query.dateFilters[l]),
                            DateRange(sv.query.dateFilters[l], sv.tz))

\* ------------------------------------------- the persist debounce in time
\* Specification SpecDebounce: change notifications on desktop, the clock
\* and the timers of debouncedPersist.
MaxTime == 5       \* ticks of the clock in one run
MaxNotify == 4     \* change notifications in one run

\* the delay of debouncedPersist, in ticks of 15 s
PERSIST_DEBOUNCE_MS == 2

\* debounced() that sets the new timer and leaves the running one alone.
debouncedNoClear(d, delayMs) ==
    [d EXCEPT !.timers = @ \cup {[id |-> d.next, due |-> d.now + delayMs]},
              !.timeoutId = d.next,
              !.next = @ + 1]

\* debounced() at time d.now: clearTimeout of the timer timeoutId names, if
\* any, then setTimeout(..., delayMs).
debouncedAt(d, delayMs) ==
    [d EXCEPT !.timers = {t \in @ : t.id # d.timeoutId}
                             \cup {[id |-> d.next, due |-> d.now + delayMs]},
              !.timeoutId = d.next,
              !.next = @ + 1]

InitDebounce ==
    /\ tfile = [f \in FileIds |-> NoPath]
    /\ vault = {}
    /\ excludedFolders = {}
    /\ isMobile = FALSE
    /\ dbReady = TRUE
    /\ engine = {}
    /\ pathToId = EmptyMap
    /\ nextId = 1
    /\ pendingUpdates = <<>>
    /\ timeoutId = FALSE
    /\ persistTimeoutId = FALSE
    /\ flushes = <<>>
    /\ removals = <<>>
    /\ saves = <<>>
    /\ stored = NoSnapshot
    /\ unloaded = FALSE
    /\ boot = BootDone
    /\ api = ApiIdle
    /\ persistRejected = FALSE
    /\ sv = SearchIdle
    /\ ask = AskIdle
    /\ deb = DebIdle
    /\ staleTest = NotChecked
    /\ view = ViewIdle
    /\ reindex = <<>>
    /\ nEvents = 0
    /\ dirty = {}
    /\ aborted = <<>>
    /\ mon = MonZero("off")

debVars == <<tfile, vault, excludedFolders, isMobile, dbReady, engine, nextId,
             pathToId, pendingUpdates, timeoutId, persistTimeoutId, flushes,
             removals, saves, stored, unloaded, boot, api, persistRejected,
             sv, ask, staleTest, view, reindex, nEvents, dirty, aborted, mon>>

\* A change notification: onIndexChanged calls debouncedPersist().
Notify ==
    /\ deb.next <= MaxNotify
    /\ deb' = [debouncedAt(deb, PERSIST_DEBOUNCE_MS) EXCEPT
                  !.last = deb.now,
                  !.bursts = IF deb.timers = {} THEN @ + 1 ELSE @]
    /\ UNCHANGED debVars

\* The clock advances; a timer that is due fires before it does.
Tick ==
    /\ deb.now < MaxTime
    /\ \A t \in deb.timers : t.due > deb.now
    /\ deb' = [deb EXCEPT !.now = @ + 1]
    /\ UNCHANGED debVars

\* The timer id is due and its callback runs: timeoutId = null, then
\* persistIndex().
PersistTimer(id) ==
    /\ \E t \in deb.timers : t.id = id /\ t.due <= deb.now
    /\ deb' = [deb EXCEPT !.timers = {t \in @ : t.id # id},
                          !.timeoutId = 0,
                          !.persists = @ + 1,
                          !.early = @ \/ deb.now - deb.last < PERSIST_DEBOUNCE_MS]
    /\ UNCHANGED debVars

NextDebounce ==
    \/ Notify
    \/ Tick
    \/ \E id \in 1..MaxNotify : PersistTimer(id)

SpecDebounce == InitDebounce /\ [][NextDebounce]_vars

MaxCached == 20        \* documentCount of the snapshot
MaxVaultFiles == 20    \* indexable files of the vault

InitStale ==
    /\ tfile = [f \in FileIds |-> NoPath]
    /\ vault = {}
    /\ excludedFolders = {}
    /\ isMobile = FALSE
    /\ dbReady = TRUE
    /\ engine = {}
    /\ pathToId = EmptyMap
    /\ nextId = 1
    /\ pendingUpdates = <<>>
    /\ timeoutId = FALSE
    /\ persistTimeoutId = FALSE
    /\ flushes = <<>>
    /\ removals = <<>>
    /\ saves = <<>>
    /\ stored = NoSnapshot
    /\ unloaded = FALSE
    /\ boot = BootIdle
    /\ api = ApiIdle
    /\ persistRejected = FALSE
    /\ sv = SearchIdle
    /\ ask = AskIdle
    /\ deb = DebIdle
    /\ \E c \in 0..MaxCached, n \in 0..MaxVaultFiles :
          staleTest = [NotChecked EXCEPT !.pc = "cached", !.documentCount = c,
                                         !.vaultFileCount = n]
    /\ view = ViewIdle
    /\ reindex = <<>>
    /\ nEvents = 0
    /\ dirty = {}
    /\ aborted = <<>>
    /\ mon = MonZero("off")

staleVars == <<tfile, vault, excludedFolders, isMobile, dbReady, engine,
               nextId, pathToId, pendingUpdates, timeoutId, persistTimeoutId,
               flushes, removals, saves, stored, unloaded, boot, api,
               persistRejected, sv, ask, deb, view, reindex, nEvents, dirty, aborted, mon>>

\* initialize() with a snapshot read from the store: the staleness test
\* decides between the full rebuild and the load of the snapshot.
StaleCheck ==
    /\ staleTest.pc = "cached"
    /\ staleTest' = [staleTest EXCEPT
           !.pc = "tested",
           !.rebuild = isStale(staleTest.documentCount, staleTest.vaultFileCount)]
    /\ UNCHANGED staleVars

NextStale == StaleCheck

SpecStale == InitStale /\ [][NextStale]_vars

\* C30 as stated: with F > 0 indexable files a snapshot of C documents is
\* stale exactly when C < 0.8 * F, that is 5 * C < 4 * F: C = 10 with
\* F = 20 rebuilds, C = 0.8 * F loads; with F = 0 no snapshot is stale.
C30_StaleBelowThreshold ==
    staleTest.pc = "tested" =>
        LET C == staleTest.documentCount
            F == staleTest.vaultFileCount
        IN /\ F > 0 => (staleTest.rebuild <=> 5 * C < 4 * F)
           /\ F = 0 => ~staleTest.rebuild
           /\ C = 10 /\ F = 20 => staleTest.rebuild
           /\ 5 * C = 4 * F => ~staleTest.rebuild

\* the snapshot of exactly 0.8 * F documents was tested and is loaded
C30_Witness ==
    /\ staleTest.pc = "tested"
    /\ staleTest.documentCount = 16
    /\ staleTest.vaultFileCount = 20
    /\ ~staleTest.rebuild

\* ----------------------------------------------------------- SpecMobile
\* The whole life of the plugin from its first start on a device, mobile
\* or desktop, the store being empty: initialize(), which rebuilds, then,
\* the file watchers being registered when it has returned, edits,
\* flushes, the debounced persist and onunload.
MaxEdits == 1      \* edits of a note after the start

InitMobile == InitBoot /\ excludedFolders = {} /\ stored = NoSnapshot

WatchersRegistered == boot.pc \in {"loaded", "rebuilt"}

NextMobile ==
    \/ initialize
    \/ \E ok \in BOOLEAN : LoadIndexDone(ok)
    \/ RebuildCreated
    \/ \E o \in Outcomes : RebuildExtractDone(o)
    \/ RebuildAfterInsert
    \/ RebuildNext
    \/ \E ok \in BOOLEAN : RebuildPersisted(ok)
    \/ \E f \in FileIds : WatchersRegistered /\ nEvents < MaxEdits /\ Modify(f)
    \/ WatchersRegistered /\ TimerFire
    \/ \E k \in 1..MaxEvents, o \in Outcomes : ExtractDone(k, o)
    \/ \E k \in 1..MaxEvents : AfterRemove(k)
    \/ \E k \in 1..MaxEvents : AfterInsert(k)
    \/ \E k \in 1..MaxEvents : FlushNext(k)
    \/ \E serialized \in BOOLEAN : WatchersRegistered /\ PersistFire(serialized)
    \/ \E ok \in BOOLEAN : WatchersRegistered /\ SaveDone(ok)
    \/ \E serialized \in BOOLEAN : WatchersRegistered /\ onunload(serialized)

SpecMobile == InitMobile /\ [][NextMobile]_vars

\* C34 as stated: on mobile no snapshot is serialized and none is written:
\* no saveIndex call is ever in flight, no persist timer is ever set and
\* the row of the store stays what it was when the plugin started.
C34_NothingPersistedOnMobile ==
    /\ [](isMobile => saves = <<>> /\ ~persistTimeoutId)
    /\ [][isMobile => stored' = stored]_vars

\* on mobile a full rebuild has finished, an edit has been flushed and the
\* plugin has been unloaded
C34_Witness ==
    /\ isMobile
    /\ boot.pc = "rebuilt"
    /\ unloaded
    /\ nEvents = 1
    /\ Quiescent
    /\ aborted = <<>>
    /\ engine # {}

\* ---------------------------------------------------------- SpecReindex
\* The "Re-index vault" command on a running plugin: triggerReindex calls
\* fullRebuild, and nothing keeps the command from being run again while a
\* rebuild is still going on.  No vault event is delivered.
MaxReindex == 2    \* runs of the command

\* A fullRebuild call of the command.  produced is history: the paths
\* whose indexFile call gave this rebuild a document.
ReindexCalled ==
    [pc |-> "create", files |-> <<>>, i |-> 0, path |-> NoPath, id |-> NoId,
     docCount |-> 0, documentCount |-> 0, snap |-> NoSnapshot, produced |-> {}]

\* The plugin is running on desktop with its index loaded; the vault holds
\* one note.
InitReindex == Init /\ dbReady /\ \E f \in FileIds : vault = {f}

reindexVars == <<tfile, vault, excludedFolders, isMobile, pendingUpdates,
                 timeoutId, persistTimeoutId, flushes, removals, saves,
                 unloaded, boot, api, persistRejected, sv, ask, deb, staleTest,
                 view, nEvents, dirty, aborted, mon>>

\* The loop of indexAllStreaming after file i and the end of fullRebuild:
\* the next indexFile call; after the last file persistIndex up to
\* `await saveIndex` on desktop, the returned status on mobile.
ReindexAdvance(r, docs, map) ==
    IF r.i < Len(r.files)
    THEN [r EXCEPT !.pc = "indexFile", !.i = r.i + 1]
    ELSE IF isMobile
    THEN [r EXCEPT !.pc = "rebuilt", !.documentCount = r.docCount]
    ELSE [r EXCEPT !.pc = "persist", !.snap = serialize(docs, map)]

\* The command is run: fullRebuild up to `await create(...)` in
\* OramaIndex.initialize().
triggerReindex ==
    /\ Len(reindex) < MaxReindex
    /\ reindex' = Append(reindex, ReindexCalled)
    /\ UNCHANGED <<reindexVars, dbReady, engine, nextId, pathToId, stored>>

\* OramaIndex.initialize() resumes after `await create(...)`: a new empty
\* db and an empty pathToId; then indexAllStreaming up to its first await.
ReindexCreated(k) ==
    /\ k <= Len(reindex)
    /\ reindex[k].pc = "create"
    /\ dbReady' = TRUE
    /\ engine' = {}
    /\ pathToId' = EmptyMap
    /\ reindex' = [reindex EXCEPT ![k] =
                     ReindexAdvance([@ EXCEPT !.files = getIndexableFiles],
                                    {}, EmptyMap)]
    /\ UNCHANGED <<reindexVars, nextId, stored>>

\* `await this.indexFile(file)` comes back in indexAllStreaming; with a
\* document, upsertDocument up to its first await.
ReindexExtractDone(k, o) ==
    /\ k <= Len(reindex)
    /\ reindex[k].pc = "indexFile"
    /\ LET r == reindex[k]
           path == tfile[r.files[r.i]]
           u == upsertDocument(dbReady, engine, pathToId, nextId, path)
       IN /\ isExcluded(excludedFolders, path) => o = "null"
          /\ CASE o = "throw" ->
                    /\ reindex' = [reindex EXCEPT ![k].pc = "failed"]
                    /\ UNCHANGED <<engine, nextId>>
               [] o = "null" ->
                    /\ reindex' = [reindex EXCEPT ![k] =
                                     ReindexAdvance(r, engine, pathToId)]
                    /\ UNCHANGED <<engine, nextId>>
               [] o = "doc" ->
                    /\ reindex' = [reindex EXCEPT ![k] =
                                     [r EXCEPT !.pc = u.pc, !.id = u.id,
                                               !.path = path,
                                               !.produced = @ \cup {path}]]
                    /\ engine' = u.engine
                    /\ nextId' = u.nextId
    /\ UNCHANGED <<reindexVars, dbReady, pathToId, stored>>

\* upsertDocument of the rebuild resumes after `await remove(...)`, whose
\* failure is caught: the insert, up to its await.
ReindexAfterRemove(k) ==
    /\ k <= Len(reindex)
    /\ reindex[k].pc = "remove"
    /\ engine' = EngineInsert(engine, nextId, reindex[k].path)
    /\ nextId' = nextId + 1
    /\ reindex' = [reindex EXCEPT ![k].pc = "insert", ![k].id = nextId]
    /\ UNCHANGED <<reindexVars, dbReady, pathToId, stored>>

\* upsertDocument of the rebuild resumes after `await insert(...)`.
ReindexAfterInsert(k) ==
    /\ k <= Len(reindex)
    /\ reindex[k].pc = "insert"
    /\ pathToId' = [pathToId EXCEPT ![reindex[k].path] = reindex[k].id]
    /\ reindex' = [reindex EXCEPT ![k].pc = "next"]
    /\ UNCHANGED <<reindexVars, dbReady, engine, nextId, stored>>

\* indexAllStreaming resumes after `await onDocument(doc)`: docCount++.
ReindexNext(k) ==
    /\ k <= Len(reindex)
    /\ reindex[k].pc = "next"
    /\ reindex' = [reindex EXCEPT ![k] =
                     ReindexAdvance([@ EXCEPT !.docCount = @ + 1],
                                    engine, pathToId)]
    /\ UNCHANGED <<reindexVars, dbReady, engine, nextId, pathToId, stored>>

\* fullRebuild resumes after `await this.persistIndex()`: the write went
\* through (ok) or failed and was swallowed by the try/catch.
ReindexPersisted(k, ok) ==
    /\ k <= Len(reindex)
    /\ reindex[k].pc = "persist"
    /\ stored' = IF ok THEN reindex[k].snap ELSE stored
    /\ reindex' = [reindex EXCEPT ![k].pc = "rebuilt",
                                  ![k].documentCount = reindex[k].docCount]
    /\ UNCHANGED <<reindexVars, dbReady, engine, nextId, pathToId>>

NextReindex ==
    \/ triggerReindex
    \/ \E k \in 1..MaxReindex : ReindexCreated(k)
    \/ \E k \in 1..MaxReindex, o \in Outcomes : ReindexExtractDone(k, o)
    \/ \E k \in 1..MaxReindex : ReindexAfterRemove(k)
    \/ \E k \in 1..MaxReindex : ReindexAfterInsert(k)
    \/ \E k \in 1..MaxReindex : ReindexNext(k)
    \/ \E k \in 1..MaxReindex, ok \in BOOLEAN : ReindexPersisted(k, ok)

SpecReindex == InitReindex /\ [][NextReindex]_vars

\* C35 as stated: a rebuild begins with an empty engine and an empty table,
\* and when it returns the engine holds one document for each path the
\* rebuild got a document for, nothing else, and as many documents as the
\* status reports.
C35_RebuildExact ==
    [][\A k \in 1..Len(reindex) :
          /\ reindex[k].pc = "create" /\ reindex'[k].pc # "create" =>
                reindex'[k].produced = {} /\ PathsOf(engine') \subseteq {}
                /\ pathToId' = EmptyMap
          /\ reindex[k].pc # "rebuilt" /\ reindex'[k].pc = "rebuilt" =>
                /\ PathsOf(engine') = reindex'[k].produced
                /\ Cardinality(engine') = Cardinality(reindex'[k].produced)
                /\ reindex'[k].documentCount = Cardinality(engine')]_vars

\* ------------------------------------------------------------ SpecParse
\* parseQuery on queries of key:value tokens: keys the catch-all takes,
\* reserved keys no rule matches, a reserved key with a capital, a key that
\* ends in a reserved word, a value that is a tag.
KeyPool ==
    {Token("", FALSE, FALSE, <<"a">>, "", 0),
     Token("k", FALSE, FALSE, <<"a">>, "", 0),
     Token("k", FALSE, FALSE, <<"b">>, "", 0),
     Token("k", FALSE, TRUE, <<"a">>, "", 0),
     Token("title", FALSE, FALSE, <<"a">>, "", 0),
     Token("created", FALSE, FALSE, <<"a">>, "", 0),
     Token("created", FALSE, FALSE, <<>>, "", 1),
     Token("Created", FALSE, FALSE, <<>>, "", 1),
     Token("profile", FALSE, FALSE, <<"a">>, "", 0)}

InitParse ==
    /\ tfile = [f \in FileIds |-> NoPath]
    /\ vault = {}
    /\ excludedFolders = {}
    /\ isMobile = FALSE
    /\ dbReady = TRUE
    /\ engine = {}
    /\ pathToId = EmptyMap
    /\ nextId = 1
    /\ pendingUpdates = <<>>
    /\ timeoutId = FALSE
    /\ persistTimeoutId = FALSE
    /\ flushes = <<>>
    /\ removals = <<>>
    /\ saves = <<>>
    /\ stored = NoSnapshot
    /\ unloaded = FALSE
    /\ boot = BootDone
    /\ api = ApiIdle
    /\ persistRejected = FALSE
    /\ \E raw \in UNION {[1..n -> KeyPool] : n \in 1..MaxTokens} :
          sv = [SearchIdle EXCEPT !.pc = "typed", !.raw = raw]
    /\ ask = AskIdle
    /\ deb = DebIdle
    /\ staleTest = NotChecked
    /\ view = ViewIdle
    /\ reindex = <<>>
    /\ nEvents = 0
    /\ dirty = {}
    /\ aborted = <<>>
    /\ mon = MonZero("off")

SpecParse == InitParse /\ [][ParseQuery]_vars

\* the last token of the query that reads key:value with this key
LastOfKey(raw, key) ==
    LET js == {j \in 1..Len(raw) : raw[j].pre = key /\ Value(raw[j]) # <<>>}
    IN raw[CHOOSE j \in js : \A i \in js : i <= j]

\* C37 as stated: no frontmatter filter has a reserved key, whatever its
\* case; a key:value token with a reserved key that no rule before the
\* catch-all took is in the residual text as it was typed; and every
\* key:value token with another key has left the text and its key is a
\* frontmatter filter (with the value of the last token of that key).
C37_CatchAllSparesReserved ==
    sv.pc = "parsed" =>
        /\ \A e \in sv.query.frontmatter : Lower(e[1]) \notin RESERVED_PREFIXES
        /\ \A j \in 1..Len(sv.raw) :
              LET t == sv.raw[j]
              IN t.pre # "" /\ Value(t) # <<>> =>
                    IF Lower(t.pre) \in RESERVED_PREFIXES
                    THEN Rule(t) \in {"text", "key:value"} =>
                            TokenText(t) \in Range(sv.query.text)
                    ELSE /\ <<t.pre, Value(LastOfKey(sv.raw, t.pre))>>
                                \in sv.query.frontmatter
                         /\ TokenText(t) \notin Range(sv.query.text)

\* ------------------------------------------------------------- SpecView
\* The search view: the user types, the search timer fires, the searches
\* come back.
MaxInputs == 3     \* query inputs in one run

InitView ==
    /\ tfile = [f \in FileIds |-> NoPath]
    /\ vault = {}
    /\ excludedFolders = {}
    /\ isMobile = FALSE
    /\ dbReady = TRUE
    /\ engine = {}
    /\ pathToId = EmptyMap
    /\ nextId = 1
    /\ pendingUpdates = <<>>
    /\ timeoutId = FALSE
    /\ persistTimeoutId = FALSE
    /\ flushes = <<>>
    /\ removals = <<>>
    /\ saves = <<>>
    /\ stored = NoSnapshot
    /\ unloaded = FALSE
    /\ boot = BootDone
    /\ api = ApiIdle
    /\ persistRejected = FALSE
    /\ sv = SearchIdle
    /\ ask = AskIdle
    /\ deb = DebIdle
    /\ staleTest = NotChecked
    /\ view = ViewIdle
    /\ reindex = <<>>
    /\ nEvents = 0
    /\ dirty = {}
    /\ aborted = <<>>
    /\ mon = MonZero("off")

viewVars == <<tfile, vault, excludedFolders, isMobile, dbReady, engine, nextId,
              pathToId, pendingUpdates, timeoutId, persistTimeoutId, flushes,
              removals, saves, stored, unloaded, boot, api, persistRejected,
              sv, ask, deb, staleTest, reindex, nEvents, dirty, aborted, mon>>

\* handleSearch(query): the state takes the query, the pending timer is
\* cleared and a new one is set.  A search that is awaited goes on.
handleSearch(isBlank) ==
    /\ view.query < MaxInputs
    /\ view' = [view EXCEPT
           !.query = @ + 1,
           !.isSearching = TRUE,
           !.error = FALSE,
           !.searchTimeout = view.query + 1,
           !.blank = IF isBlank THEN @ \cup {view.query + 1} ELSE @]
    /\ UNCHANGED viewVars

\* The search timer fires: a blank query clears the results at once, any
\* other is parsed and searched, and the callback waits for the search.
SearchTimerFire ==
    /\ view.searchTimeout # 0
    /\ LET q == view.searchTimeout
       IN IF q \in view.blank
          THEN view' = [view EXCEPT !.searchTimeout = 0, !.results = q,
                                    !.isSearching = FALSE]
          ELSE view' = [view EXCEPT !.searchTimeout = 0,
                                    !.running = @ \cup {q}]
    /\ UNCHANGED viewVars

\* `await plugin.oramaIndex.search(...)` of input q comes back: setState
\* with its results, or with the error.
SearchBack(q, ok) ==
    /\ q \in view.running
    /\ view' = IF ok
               THEN [view EXCEPT !.running = @ \ {q}, !.results = q,
                                 !.isSearching = FALSE, !.error = FALSE]
               ELSE [view EXCEPT !.running = @ \ {q}, !.isSearching = FALSE,
                                 !.error = TRUE]
    /\ UNCHANGED viewVars

NextView ==
    \/ \E isBlank \in BOOLEAN : handleSearch(isBlank)
    \/ SearchTimerFire
    \/ \E q \in 1..MaxInputs, ok \in BOOLEAN : SearchBack(q, ok)

SpecView == InitView /\ [][NextView]_vars

\* C31 as stated: the results the view shows are never replaced by those
\* of an earlier input, and when no timer is pending, no search is awaited
\* and no error is shown, they are the results of the latest input.
C31_LatestQueryShown ==
    /\ [][view'.results >= view.results]_vars
    /\ [](view.searchTimeout = 0 /\ view.running = {} /\ ~view.error
            => view.results = view.query)

\* ------------------------------------------------------------ SpecFuzzy
\* The engine searches of one search() call: the first, and the retry.
\* query.text is the sequence of the words of the residual text, a phrase
\* the sequence of its characters.
MaxWord == 5       \* characters of the longest word of a query

\* words.join(" ")
RECURSIVE join(_)
join(words) ==
    IF words = <<>> THEN <<>>
    ELSE IF Len(words) = 1 THEN words[1]
    ELSE words[1] \o <<" ">> \o join(Tail(words))

\* phrase.split(/\s+/)
RECURSIVE split(_)
split(phrase) ==
    IF phrase = <<>> THEN <<<<>>>>
    ELSE LET rest == split(Tail(phrase))
         IN IF Head(phrase) = " "
            THEN (IF Head(rest) = <<>> /\ Tail(phrase) # <<>> /\ phrase[2] = " "
                  THEN rest ELSE <<<<>>>> \o rest)
            ELSE <<<<Head(phrase)>> \o Head(rest)>> \o Tail(rest)

\* the longest word of more than two characters, the first of them in the
\* phrase if several are as long; "" if there is none
longestWord(phrase) ==
    LET words == SelectSeq(split(phrase), LAMBDA w : Len(w) > 2)
    IN IF words = <<>> THEN <<>>
       ELSE words[CHOOSE j \in 1..Len(words) :
                     /\ \A k \in 1..Len(words) : Len(words[k]) <= Len(words[j])
                     /\ \A k \in 1..(j - 1) : Len(words[k]) < Len(words[j])]

\* the term search() hands to the engine
searchTerm(query) ==
    IF query.phrases # <<>>
    THEN join(SelectSeq(<<join(query.text)>>
                        \o [j \in 1..Len(query.phrases) |->
                               longestWord(query.phrases[j])],
                        LAMBDA w : w # <<>>))
    ELSE join(query.text)

\* useFuzzy with the test length > 3
useFuzzyFromFour(fuzzy, query) ==
    fuzzy /\ query.phrases = <<>> /\ Len(searchTerm(query)) > 3

\* useFuzzy = fuzzy && !hasPhrases && searchTerm.length > 4
useFuzzy(fuzzy, query) ==
    fuzzy /\ query.phrases = <<>> /\ Len(searchTerm(query)) > 4

Word(n) == [j \in 1..n |-> "a"]

\* residual texts of 0 to MaxWord + 2 characters, in one word or two
TextPool ==
    {<<>>} \cup {<<Word(n)>> : n \in 1..MaxWord}
           \cup {<<Word(n), Word(1)>> : n \in 1..MaxWord}

\* no phrase, or the phrase "aaa a"
PhrasePool == {<<>>, <<Word(3) \o <<" ">> \o Word(1)>>}

InitFuzzy ==
    /\ tfile = [f \in FileIds |-> NoPath]
    /\ vault = {}
    /\ excludedFolders = {}
    /\ isMobile = FALSE
    /\ dbReady = TRUE
    /\ engine = {}
    /\ pathToId = EmptyMap
    /\ nextId = 1
    /\ pendingUpdates = <<>>
    /\ timeoutId = FALSE
    /\ persistTimeoutId = FALSE
    /\ flushes = <<>>
    /\ removals = <<>>
    /\ saves = <<>>
    /\ stored = NoSnapshot
    /\ unloaded = FALSE
    /\ boot = BootDone
    /\ api = ApiIdle
    /\ persistRejected = FALSE
    /\ \E text \in TextPool, phrases \in PhrasePool, fuzzy \in BOOLEAN :
          sv = [SearchIdle EXCEPT
                   !.pc = "parsed", !.fuzzy = fuzzy,
                   !.query = [NoQuery EXCEPT !.text = text, !.phrases = phrases]]
    /\ ask = AskIdle
    /\ deb = DebIdle
    /\ staleTest = NotChecked
    /\ view = ViewIdle
    /\ reindex = <<>>
    /\ nEvents = 0
    /\ dirty = {}
    /\ aborted = <<>>
    /\ mon = MonZero("off")

fuzzyVars == <<tfile, vault, excludedFolders, isMobile, dbReady, engine,
               nextId, pathToId, pendingUpdates, timeoutId, persistTimeoutId,
               flushes, removals, saves, stored, unloaded, boot, api,
               persistRejected, ask, deb, staleTest, view, reindex, nEvents, dirty,
               aborted, mon>>

\* search() up to its first `await search(this.db, ...)`.
FirstSearch ==
    /\ sv.pc = "parsed"
    /\ dbReady
    /\ sv' = [sv EXCEPT
           !.pc = "first",
           !.tolerances = <<IF useFuzzy(sv.fuzzy, sv.query) THEN 1 ELSE 0>>]
    /\ UNCHANGED fuzzyVars

\* The first engine search comes back, with hits or without: search()
\* goes on to the post-filters, or makes the exact search and waits.
FirstAnswer(empty) ==
    /\ sv.pc = "first"
    /\ sv' = IF empty /\ useFuzzy(sv.fuzzy, sv.query)
             THEN [sv EXCEPT !.pc = "retry", !.first = "empty",
                             !.tolerances = Append(@, 0)]
             ELSE [sv EXCEPT !.pc = "filter",
                             !.first = IF empty THEN "empty" ELSE "hits"]
    /\ UNCHANGED fuzzyVars

\* The exact search comes back: search() goes on to the post-filters.
RetryAnswer ==
    /\ sv.pc = "retry"
    /\ sv' = [sv EXCEPT !.pc = "filter"]
    /\ UNCHANGED fuzzyVars

NextFuzzy ==
    \/ FirstSearch
    \/ \E empty \in BOOLEAN : FirstAnswer(empty)
    \/ RetryAnswer

SpecFuzzy == InitFuzzy /\ [][NextFuzzy]_vars

MaxAsks == 3

InitConsent ==
    /\ tfile = [f \in FileIds |-> NoPath]
    /\ vault = {}
    /\ excludedFolders = {}
    /\ isMobile = FALSE
    /\ dbReady = TRUE
    /\ engine = {}
    /\ pathToId = EmptyMap
    /\ nextId = 1
    /\ pendingUpdates = <<>>
    /\ timeoutId = FALSE
    /\ persistTimeoutId = FALSE
    /\ flushes = <<>>
    /\ removals = <<>>
    /\ saves = <<>>
    /\ stored = NoSnapshot
    /\ unloaded = FALSE
    /\ boot = BootDone
    /\ api = ApiIdle
    /\ persistRejected = FALSE
    /\ sv = SearchIdle
    /\ \E consent \in BOOLEAN, audit \in BOOLEAN :
          ask = [AskIdle EXCEPT !.requireConsentPerRequest = consent,
                                !.auditLog = audit]
    /\ deb = DebIdle
    /\ staleTest = NotChecked
    /\ view = ViewIdle
    /\ reindex = <<>>
    /\ nEvents = 0
    /\ dirty = {}
    /\ aborted = <<>>
    /\ mon = MonZero("off")

consentVars == <<tfile, vault, excludedFolders, isMobile, dbReady, engine,
                 nextId, pathToId, pendingUpdates, timeoutId, persistTimeoutId,
                 flushes, removals, saves, stored, unloaded, boot, api,
                 persistRejected, sv, deb, staleTest, view, reindex, nEvents, dirty,
                 aborted, mon>>

\* A search of the view has returned k results: setState({results}).
SearchResults(k) ==
    /\ ~ask.modal
    /\ ask.results # k
    /\ ask' = [ask EXCEPT !.results = k]
    /\ UNCHANGED consentVars

\* The "Require consent per request" toggle of the settings tab.
SetRequireConsent(value) ==
    /\ ~ask.modal
    /\ ask.requireConsentPerRequest # value
    /\ ask' = [ask EXCEPT !.requireConsentPerRequest = value]
    /\ UNCHANGED consentVars

\* handleAskAI from `plugin.auditLog?.recordRequest(request)` to the await
\* of client.sendMessage: the last request is recorded in the audit log, if
\* there is one, and sent.
RecordAndSend(a) ==
    LET k == Len(a.requests)
    IN [a EXCEPT !.pc = "sending",
                 !.entries = IF a.auditLog THEN Append(@, k) ELSE @,
                 !.requests[k].sent = TRUE]

\* handleAskAI up to its first await: the guard, setIsAskingAI(true),
\* buildPrompt, and then either the consent dialog or, with the setting off,
\* the audit log and the request.
handleAskAI ==
    /\ ~(ask.results = 0 \/ ask.isAskingAI)
    /\ Len(ask.requests) < MaxAsks
    /\ LET required == ask.requireConsentPerRequest
           request == [required |-> required, decision |-> "none",
                       sent |-> FALSE]
           asking == [ask EXCEPT !.isAskingAI = TRUE, !.error = FALSE,
                                 !.requests = Append(@, request)]
       IN ask' = IF required
                 THEN [asking EXCEPT !.pc = "consent", !.modal = TRUE]
                 ELSE RecordAndSend(asking)
    /\ UNCHANGED consentVars

\* A click in the consent dialog: onDecision(consented), then close(). The
\* promise of requestConsent is resolved; handleAskAI resumes later.
ConsentClick(consented) ==
    /\ ask.modal
    /\ ask' = [ask EXCEPT !.pc = "decided", !.modal = FALSE,
                          !.requests[Len(ask.requests)].decision =
                              IF consented THEN "approved" ELSE "declined"]
    /\ UNCHANGED consentVars

\* The dialog is closed without a click on one of its two buttons (Escape,
\* the close button, a click outside): Modal.close() calls onClose, which
\* empties the content and never calls onDecision. The promise of
\* requestConsent stays pending.
ConsentClose ==
    /\ ask.modal
    /\ ask' = [ask EXCEPT !.pc = "closed", !.modal = FALSE,
                          !.requests[Len(ask.requests)].decision = "closed"]
    /\ UNCHANGED consentVars

\* handleAskAI resumes with the decision: on false setIsAskingAI(false) and
\* return (the finally block sets it once more); on true the audit log and
\* the request.
ConsentResolved ==
    /\ ask.pc = "decided"
    /\ ask' = IF ask.requests[Len(ask.requests)].decision = "approved"
              THEN RecordAndSend(ask)
              ELSE [ask EXCEPT !.pc = "idle", !.isAskingAI = FALSE]
    /\ UNCHANGED consentVars

\* client.sendMessage returns the response (recordResponse, aiSummary) or
\* throws (error); finally setIsAskingAI(false).
SendDone(ok) ==
    /\ ask.pc = "sending"
    /\ ask' = [ask EXCEPT !.pc = "idle", !.isAskingAI = FALSE,
                          !.aiSummary = IF ok THEN TRUE ELSE @,
                          !.error = ~ok]
    /\ UNCHANGED consentVars

NextConsent ==
    \/ \E k \in 0..1 : SearchResults(k)
    \/ \E value \in BOOLEAN : SetRequireConsent(value)
    \/ handleAskAI
    \/ \E consented \in BOOLEAN : ConsentClick(consented)
    \/ ConsentClose
    \/ ConsentResolved
    \/ \E ok \in BOOLEAN : SendDone(ok)

SpecConsent == InitConsent /\ [][NextConsent]_vars

\* The user turned the request down: Cancel, or the dialog closed without
\* a decision.
Declined(request) == request.decision \in {"declined", "closed"}

\* C20 as stated: a request made with per-request consent on is sent to the
\* API or written to the audit log only once the user has approved it in the
\* dialog; a request the user turned down is neither sent nor logged, and
\* once handleAskAI has nothing left to run for it the asking state is reset.
C20_NothingSentWithoutConsent ==
    /\ \A k \in 1..Len(ask.requests) :
          ask.requests[k].required =>
              /\ (ask.requests[k].sent \/ k \in Range(ask.entries))
                     => ask.requests[k].decision = "approved"
              /\ Declined(ask.requests[k])
                     => ~ask.requests[k].sent /\ k \notin Range(ask.entries)
    /\ (/\ ask.requests # <<>>
        /\ ask.requests[Len(ask.requests)].required
        /\ Declined(ask.requests[Len(ask.requests)])
        /\ ask.pc # "decided")
           => ~ask.isAskingAI

====
